---------------------------- MODULE Spec2Model ----------------------------
(***************************************************************************)
(* GraphRAG Explorer: the App component (chat pipeline, selection and      *)
(* highlight state), the graph visualization's layout effect, and the      *)
(* keyword retrieval, modelled from the TypeScript sources.                *)
(*                                                                         *)
(* Text that the code splits, lowercases or searches is a sequence of      *)
(* one-character strings; text the code only stores and compares (node     *)
(* ids, relationship types, Cypher patterns) is a plain string.            *)
(***************************************************************************)
EXTENDS Integers, Sequences, FiniteSets, TLC

(***************************************************************************)
(* JavaScript string and array primitives used by the sources.             *)
(***************************************************************************)

\* The letters String.prototype.toLowerCase changes, with their images.
UpperToLower ==
  ("A" :> "a") @@ ("B" :> "b") @@ ("C" :> "c") @@ ("D" :> "d") @@ ("E" :> "e") @@
  ("F" :> "f") @@ ("G" :> "g") @@ ("H" :> "h") @@ ("I" :> "i") @@ ("J" :> "j") @@
  ("K" :> "k") @@ ("L" :> "l") @@ ("M" :> "m") @@ ("N" :> "n") @@ ("O" :> "o") @@
  ("P" :> "p") @@ ("Q" :> "q") @@ ("R" :> "r") @@ ("S" :> "s") @@ ("T" :> "t") @@
  ("U" :> "u") @@ ("V" :> "v") @@ ("W" :> "w") @@ ("X" :> "x") @@ ("Y" :> "y") @@
  ("Z" :> "z")

\* s.toLowerCase()
toLowerCase(s) ==
  [i \in 1..Len(s) |-> IF s[i] \in DOMAIN UpperToLower THEN UpperToLower[s[i]] ELSE s[i]]

\* s.includes(sub): sub occurs in s as a contiguous substring.
includes(s, sub) ==
  \E i \in 0..(Len(s) - Len(sub)) : \A j \in 1..Len(sub) : s[i + j] = sub[j]

\* s.split(' '): the pieces between single spaces, empty pieces kept;
\* ''.split(' ') is [''].
RECURSIVE split(_)
split(s) ==
  IF \A i \in 1..Len(s) : s[i] # " "
  THEN <<s>>
  ELSE LET i == CHOOSE k \in 1..Len(s) : s[k] = " " /\ \A j \in 1..(k - 1) : s[j] # " "
       IN  <<SubSeq(s, 1, i - 1)>> \o split(SubSeq(s, i + 1, Len(s)))

\* parts.join(sep)
RECURSIVE join(_, _)
join(parts, sep) ==
  IF Len(parts) = 0 THEN << >>
  ELSE IF Len(parts) = 1 THEN parts[1]
  ELSE parts[1] \o sep \o join(Tail(parts), sep)

\* array.slice(from, to) with 0 <= from: the elements at 0-based positions
\* from .. to-1 that exist.
slice(arr, from, to) ==
  SubSeq(arr, from + 1, IF to < Len(arr) THEN to ELSE Len(arr))

\* JSON.stringify of a string: quotes and backslashes are escaped.
RECURSIVE JSONescape(_)
JSONescape(s) ==
  IF Len(s) = 0 THEN << >>
  ELSE (IF s[1] \in {"\"", "\\"} THEN <<"\\", s[1]>>
        ELSE IF s[1] = "\n" THEN <<"\\", "n">>
        ELSE <<s[1]>>) \o JSONescape(Tail(s))

JSONstring(s) ==
  <<"\"">> \o JSONescape(s) \o <<"\"">>

\* JSON.stringify(properties) of a record of string values, in key order:
\* {"key":"value","key":"value"}
JSONstringify(properties) ==
  <<"{">> \o
  join([i \in 1..Len(properties) |->
          JSONstring(properties[i].key) \o <<":">> \o JSONstring(properties[i].value)],
       <<",">>) \o
  <<"}">>

\* A relationship endpoint as written in the data: the id of a node.
Id(s) ==
  [isNode |-> FALSE, id |-> s]

\* A relationship endpoint after d3.forceLink has replaced the id by the
\* node object it names.
NodeRef(s) ==
  [isNode |-> TRUE, id |-> s]

(***************************************************************************)
(* The shipped data: src/data/sampleGraph.ts.                              *)
(***************************************************************************)

\* sampleGraphData.nodes[0]: id 'genai', label 'Generative AI'
node_genai ==
  [id |-> "genai", type |-> "Concept",
   label |-> <<"G","e","n","e","r","a","t","i","v","e"," ","A","I">>,
   properties |-> <<
     \* description: 'AI systems that can generate new content based on training data'
     [key |-> <<"d","e","s","c","r","i","p","t","i","o","n">>,
      value |-> <<"A","I"," ","s","y","s","t","e","m","s"," ","t","h","a","t"," ","c","a","n"," ","g","e","n","e",
          "r","a","t","e"," ","n","e","w"," ","c","o","n","t","e","n","t"," ","b","a","s","e","d"," ","o",
          "n"," ","t","r","a","i","n","i","n","g"," ","d","a","t","a">>],
     \* challenges: 'Hallucinations, lack of transparency, factual accuracy'
     [key |-> <<"c","h","a","l","l","e","n","g","e","s">>,
      value |-> <<"H","a","l","l","u","c","i","n","a","t","i","o","n","s",","," ","l","a","c","k"," ","o","f"," ",
          "t","r","a","n","s","p","a","r","e","n","c","y",","," ","f","a","c","t","u","a","l"," ","a","c",
          "c","u","r","a","c","y">>] >>]

\* sampleGraphData.nodes[1]: id 'rag', label 'RAG (Retrieval Augmented Generation)'
node_rag ==
  [id |-> "rag", type |-> "Technology",
   label |-> <<"R","A","G"," ","(","R","e","t","r","i","e","v","a","l"," ","A","u","g","m","e","n","t","e","d",
         " ","G","e","n","e","r","a","t","i","o","n",")">>,
   properties |-> <<
     \* description: 'Architecture pattern that grounds LLMs with retrieved contextual information'
     [key |-> <<"d","e","s","c","r","i","p","t","i","o","n">>,
      value |-> <<"A","r","c","h","i","t","e","c","t","u","r","e"," ","p","a","t","t","e","r","n"," ","t","h","a",
          "t"," ","g","r","o","u","n","d","s"," ","L","L","M","s"," ","w","i","t","h"," ","r","e","t","r",
          "i","e","v","e","d"," ","c","o","n","t","e","x","t","u","a","l"," ","i","n","f","o","r","m","a",
          "t","i","o","n">>],
     \* benefit: 'Reduces hallucinations by 40-60%'
     [key |-> <<"b","e","n","e","f","i","t">>,
      value |-> <<"R","e","d","u","c","e","s"," ","h","a","l","l","u","c","i","n","a","t","i","o","n","s"," ","b",
          "y"," ","4","0","-","6","0","%">>] >>]

\* sampleGraphData.nodes[2]: id 'graphrag', label 'GraphRAG'
node_graphrag ==
  [id |-> "graphrag", type |-> "Technology",
   label |-> <<"G","r","a","p","h","R","A","G">>,
   properties |-> <<
     \* description: 'RAG enhanced with graph database for relationship-aware context retrieval'
     [key |-> <<"d","e","s","c","r","i","p","t","i","o","n">>,
      value |-> <<"R","A","G"," ","e","n","h","a","n","c","e","d"," ","w","i","t","h"," ","g","r","a","p","h"," ",
          "d","a","t","a","b","a","s","e"," ","f","o","r"," ","r","e","l","a","t","i","o","n","s","h","i",
          "p","-","a","w","a","r","e"," ","c","o","n","t","e","x","t"," ","r","e","t","r","i","e","v","a",
          "l">>],
     \* advantage: 'Understands complex multi-hop relationships between entities'
     [key |-> <<"a","d","v","a","n","t","a","g","e">>,
      value |-> <<"U","n","d","e","r","s","t","a","n","d","s"," ","c","o","m","p","l","e","x"," ","m","u","l","t",
          "i","-","h","o","p"," ","r","e","l","a","t","i","o","n","s","h","i","p","s"," ","b","e","t","w",
          "e","e","n"," ","e","n","t","i","t","i","e","s">>] >>]

\* sampleGraphData.nodes[3]: id 'llm', label 'Large Language Model'
node_llm ==
  [id |-> "llm", type |-> "Technology",
   label |-> <<"L","a","r","g","e"," ","L","a","n","g","u","a","g","e"," ","M","o","d","e","l">>,
   properties |-> <<
     \* description: 'Neural network trained on vast amounts of text data'
     [key |-> <<"d","e","s","c","r","i","p","t","i","o","n">>,
      value |-> <<"N","e","u","r","a","l"," ","n","e","t","w","o","r","k"," ","t","r","a","i","n","e","d"," ","o",
          "n"," ","v","a","s","t"," ","a","m","o","u","n","t","s"," ","o","f"," ","t","e","x","t"," ","d",
          "a","t","a">>],
     \* examples: 'GPT-4, Claude, Llama'
     [key |-> <<"e","x","a","m","p","l","e","s">>,
      value |-> <<"G","P","T","-","4",","," ","C","l","a","u","d","e",","," ","L","l","a","m","a">>] >>]

\* sampleGraphData.nodes[4]: id 'neo4j', label 'Neo4j'
node_neo4j ==
  [id |-> "neo4j", type |-> "Technology",
   label |-> <<"N","e","o","4","j">>,
   properties |-> <<
     \* description: 'Leading graph database platform'
     [key |-> <<"d","e","s","c","r","i","p","t","i","o","n">>,
      value |-> <<"L","e","a","d","i","n","g"," ","g","r","a","p","h"," ","d","a","t","a","b","a","s","e"," ","p",
          "l","a","t","f","o","r","m">>],
     \* strength: 'Optimized for relationship traversal and pattern matching'
     [key |-> <<"s","t","r","e","n","g","t","h">>,
      value |-> <<"O","p","t","i","m","i","z","e","d"," ","f","o","r"," ","r","e","l","a","t","i","o","n","s","h",
          "i","p"," ","t","r","a","v","e","r","s","a","l"," ","a","n","d"," ","p","a","t","t","e","r","n",
          " ","m","a","t","c","h","i","n","g">>] >>]

\* sampleGraphData.nodes[5]: id 'vectordb', label 'Vector Database'
node_vectordb ==
  [id |-> "vectordb", type |-> "Technology",
   label |-> <<"V","e","c","t","o","r"," ","D","a","t","a","b","a","s","e">>,
   properties |-> <<
     \* description: 'Database optimized for similarity search using embeddings'
     [key |-> <<"d","e","s","c","r","i","p","t","i","o","n">>,
      value |-> <<"D","a","t","a","b","a","s","e"," ","o","p","t","i","m","i","z","e","d"," ","f","o","r"," ","s",
          "i","m","i","l","a","r","i","t","y"," ","s","e","a","r","c","h"," ","u","s","i","n","g"," ","e",
          "m","b","e","d","d","i","n","g","s">>],
     \* limitation: 'Does not capture semantic relationships between entities'
     [key |-> <<"l","i","m","i","t","a","t","i","o","n">>,
      value |-> <<"D","o","e","s"," ","n","o","t"," ","c","a","p","t","u","r","e"," ","s","e","m","a","n","t","i",
          "c"," ","r","e","l","a","t","i","o","n","s","h","i","p","s"," ","b","e","t","w","e","e","n"," ",
          "e","n","t","i","t","i","e","s">>] >>]

\* sampleGraphData.nodes[6]: id 'cypher', label 'Cypher'
node_cypher ==
  [id |-> "cypher", type |-> "Technology",
   label |-> <<"C","y","p","h","e","r">>,
   properties |-> <<
     \* description: 'Neo4j's declarative graph query language'
     [key |-> <<"d","e","s","c","r","i","p","t","i","o","n">>,
      value |-> <<"N","e","o","4","j","'","s"," ","d","e","c","l","a","r","a","t","i","v","e"," ","g","r","a","p",
          "h"," ","q","u","e","r","y"," ","l","a","n","g","u","a","g","e">>],
     \* feature: 'Pattern matching syntax for intuitive relationship queries'
     [key |-> <<"f","e","a","t","u","r","e">>,
      value |-> <<"P","a","t","t","e","r","n"," ","m","a","t","c","h","i","n","g"," ","s","y","n","t","a","x"," ",
          "f","o","r"," ","i","n","t","u","i","t","i","v","e"," ","r","e","l","a","t","i","o","n","s","h",
          "i","p"," ","q","u","e","r","i","e","s">>] >>]

\* sampleGraphData.nodes[7]: id 'knowledge-management', label 'Enterprise Knowledge Management'
node_knowledge_management ==
  [id |-> "knowledge-management", type |-> "Concept",
   label |-> <<"E","n","t","e","r","p","r","i","s","e"," ","K","n","o","w","l","e","d","g","e"," ","M","a","n",
         "a","g","e","m","e","n","t">>,
   properties |-> <<
     \* useCase: 'Connecting siloed information across departments'
     [key |-> <<"u","s","e","C","a","s","e">>,
      value |-> <<"C","o","n","n","e","c","t","i","n","g"," ","s","i","l","o","e","d"," ","i","n","f","o","r","m",
          "a","t","i","o","n"," ","a","c","r","o","s","s"," ","d","e","p","a","r","t","m","e","n","t","s">>],
     \* benefit: 'Enables AI to answer questions requiring cross-domain knowledge'
     [key |-> <<"b","e","n","e","f","i","t">>,
      value |-> <<"E","n","a","b","l","e","s"," ","A","I"," ","t","o"," ","a","n","s","w","e","r"," ","q","u","e",
          "s","t","i","o","n","s"," ","r","e","q","u","i","r","i","n","g"," ","c","r","o","s","s","-","d",
          "o","m","a","i","n"," ","k","n","o","w","l","e","d","g","e">>] >>]

\* sampleGraphData.nodes[8]: id 'recommendation', label 'Intelligent Recommendations'
node_recommendation ==
  [id |-> "recommendation", type |-> "Concept",
   label |-> <<"I","n","t","e","l","l","i","g","e","n","t"," ","R","e","c","o","m","m","e","n","d","a","t","i",
         "o","n","s">>,
   properties |-> <<
     \* useCase: 'Personalized suggestions based on user behavior and item relationships'
     [key |-> <<"u","s","e","C","a","s","e">>,
      value |-> <<"P","e","r","s","o","n","a","l","i","z","e","d"," ","s","u","g","g","e","s","t","i","o","n","s",
          " ","b","a","s","e","d"," ","o","n"," ","u","s","e","r"," ","b","e","h","a","v","i","o","r"," ",
          "a","n","d"," ","i","t","e","m"," ","r","e","l","a","t","i","o","n","s","h","i","p","s">>],
     \* example: 'E-commerce product recommendations'
     [key |-> <<"e","x","a","m","p","l","e">>,
      value |-> <<"E","-","c","o","m","m","e","r","c","e"," ","p","r","o","d","u","c","t"," ","r","e","c","o","m",
          "m","e","n","d","a","t","i","o","n","s">>] >>]

\* sampleGraphData.nodes[9]: id 'fraud-detection', label 'Fraud Detection'
node_fraud_detection ==
  [id |-> "fraud-detection", type |-> "Concept",
   label |-> <<"F","r","a","u","d"," ","D","e","t","e","c","t","i","o","n">>,
   properties |-> <<
     \* useCase: 'Identifying suspicious patterns in transaction networks'
     [key |-> <<"u","s","e","C","a","s","e">>,
      value |-> <<"I","d","e","n","t","i","f","y","i","n","g"," ","s","u","s","p","i","c","i","o","u","s"," ","p",
          "a","t","t","e","r","n","s"," ","i","n"," ","t","r","a","n","s","a","c","t","i","o","n"," ","n",
          "e","t","w","o","r","k","s">>],
     \* advantage: 'Detects complex fraud rings through relationship analysis'
     [key |-> <<"a","d","v","a","n","t","a","g","e">>,
      value |-> <<"D","e","t","e","c","t","s"," ","c","o","m","p","l","e","x"," ","f","r","a","u","d"," ","r","i",
          "n","g","s"," ","t","h","r","o","u","g","h"," ","r","e","l","a","t","i","o","n","s","h","i","p",
          " ","a","n","a","l","y","s","i","s">>] >>]

\* sampleGraphData.nodes[10]: id 'nasa', label 'NASA'
node_nasa ==
  [id |-> "nasa", type |-> "Company",
   label |-> <<"N","A","S","A">>,
   properties |-> <<
     \* achievement: 'Got to Mars 2 years earlier using Neo4j'
     [key |-> <<"a","c","h","i","e","v","e","m","e","n","t">>,
      value |-> <<"G","o","t"," ","t","o"," ","M","a","r","s"," ","2"," ","y","e","a","r","s"," ","e","a","r","l",
          "i","e","r"," ","u","s","i","n","g"," ","N","e","o","4","j">>],
     \* application: 'Mission planning and resource optimization'
     [key |-> <<"a","p","p","l","i","c","a","t","i","o","n">>,
      value |-> <<"M","i","s","s","i","o","n"," ","p","l","a","n","n","i","n","g"," ","a","n","d"," ","r","e","s",
          "o","u","r","c","e"," ","o","p","t","i","m","i","z","a","t","i","o","n">>] >>]

\* sampleGraphData.nodes[11]: id 'icij', label 'ICIJ'
node_icij ==
  [id |-> "icij", type |-> "Company",
   label |-> <<"I","C","I","J">>,
   properties |-> <<
     \* achievement: 'Broke Panama Papers story'
     [key |-> <<"a","c","h","i","e","v","e","m","e","n","t">>,
      value |-> <<"B","r","o","k","e"," ","P","a","n","a","m","a"," ","P","a","p","e","r","s"," ","s","t","o","r",
          "y">>],
     \* application: 'Uncovering hidden financial networks'
     [key |-> <<"a","p","p","l","i","c","a","t","i","o","n">>,
      value |-> <<"U","n","c","o","v","e","r","i","n","g"," ","h","i","d","d","e","n"," ","f","i","n","a","n","c",
          "i","a","l"," ","n","e","t","w","o","r","k","s">>] >>]

\* sampleGraphData.nodes[12]: id 'explainability', label 'AI Explainability'
node_explainability ==
  [id |-> "explainability", type |-> "Concept",
   label |-> <<"A","I"," ","E","x","p","l","a","i","n","a","b","i","l","i","t","y">>,
   properties |-> <<
     \* description: 'Ability to trace and understand AI decision-making process'
     [key |-> <<"d","e","s","c","r","i","p","t","i","o","n">>,
      value |-> <<"A","b","i","l","i","t","y"," ","t","o"," ","t","r","a","c","e"," ","a","n","d"," ","u","n","d",
          "e","r","s","t","a","n","d"," ","A","I"," ","d","e","c","i","s","i","o","n","-","m","a","k","i",
          "n","g"," ","p","r","o","c","e","s","s">>],
     \* importance: 'Critical for regulated industries and trust'
     [key |-> <<"i","m","p","o","r","t","a","n","c","e">>,
      value |-> <<"C","r","i","t","i","c","a","l"," ","f","o","r"," ","r","e","g","u","l","a","t","e","d"," ","i",
          "n","d","u","s","t","r","i","e","s"," ","a","n","d"," ","t","r","u","s","t">>] >>]

\* sampleGraphData.nodes[13]: id 'accuracy', label 'Response Accuracy'
node_accuracy ==
  [id |-> "accuracy", type |-> "Concept",
   label |-> <<"R","e","s","p","o","n","s","e"," ","A","c","c","u","r","a","c","y">>,
   properties |-> <<
     \* description: 'Correctness and factual grounding of AI-generated content'
     [key |-> <<"d","e","s","c","r","i","p","t","i","o","n">>,
      value |-> <<"C","o","r","r","e","c","t","n","e","s","s"," ","a","n","d"," ","f","a","c","t","u","a","l"," ",
          "g","r","o","u","n","d","i","n","g"," ","o","f"," ","A","I","-","g","e","n","e","r","a","t","e",
          "d"," ","c","o","n","t","e","n","t">>],
     \* challenge: 'LLMs tend to hallucinate without proper grounding'
     [key |-> <<"c","h","a","l","l","e","n","g","e">>,
      value |-> <<"L","L","M","s"," ","t","e","n","d"," ","t","o"," ","h","a","l","l","u","c","i","n","a","t","e",
          " ","w","i","t","h","o","u","t"," ","p","r","o","p","e","r"," ","g","r","o","u","n","d","i","n",
          "g">>] >>]

\* sampleGraphData.nodes[14]: id 'context', label 'Contextual Understanding'
node_context ==
  [id |-> "context", type |-> "Concept",
   label |-> <<"C","o","n","t","e","x","t","u","a","l"," ","U","n","d","e","r","s","t","a","n","d","i","n","g">>,
   properties |-> <<
     \* description: 'Comprehension of relationships and semantic connections'
     [key |-> <<"d","e","s","c","r","i","p","t","i","o","n">>,
      value |-> <<"C","o","m","p","r","e","h","e","n","s","i","o","n"," ","o","f"," ","r","e","l","a","t","i","o",
          "n","s","h","i","p","s"," ","a","n","d"," ","s","e","m","a","n","t","i","c"," ","c","o","n","n",
          "e","c","t","i","o","n","s">>],
     \* graphAdvantage: 'Graphs naturally encode context through relationships'
     [key |-> <<"g","r","a","p","h","A","d","v","a","n","t","a","g","e">>,
      value |-> <<"G","r","a","p","h","s"," ","n","a","t","u","r","a","l","l","y"," ","e","n","c","o","d","e"," ",
          "c","o","n","t","e","x","t"," ","t","h","r","o","u","g","h"," ","r","e","l","a","t","i","o","n",
          "s","h","i","p","s">>] >>]

sampleGraphData ==
  [nodes |-> <<node_genai, node_rag, node_graphrag, node_llm, node_neo4j, node_vectordb,
               node_cypher, node_knowledge_management, node_recommendation,
               node_fraud_detection, node_nasa, node_icij, node_explainability, node_accuracy,
               node_context>>,
   relationships |-> <<
     [id |-> "r1", source |-> Id("genai"), target |-> Id("llm"), type |-> "POWERED_BY"],
     [id |-> "r2", source |-> Id("rag"), target |-> Id("genai"), type |-> "IMPROVES"],
     [id |-> "r3", source |-> Id("graphrag"), target |-> Id("rag"), type |-> "ENHANCES"],
     [id |-> "r4", source |-> Id("graphrag"), target |-> Id("neo4j"), type |-> "USES"],
     [id |-> "r5", source |-> Id("rag"), target |-> Id("vectordb"), type |-> "OFTEN_USES"],
     [id |-> "r6", source |-> Id("neo4j"), target |-> Id("cypher"), type |-> "PROVIDES"],
     [id |-> "r7", source |-> Id("graphrag"), target |-> Id("cypher"), type |-> "QUERIES_WITH"],
     [id |-> "r8", source |-> Id("graphrag"), target |-> Id("accuracy"), type |-> "IMPROVES"],
     [id |-> "r9", source |-> Id("graphrag"), target |-> Id("explainability"), type |-> "ENABLES"],
     [id |-> "r10", source |-> Id("graphrag"), target |-> Id("context"), type |-> "CAPTURES"],
     [id |-> "r11", source |-> Id("neo4j"), target |-> Id("context"), type |-> "EXCELS_AT"],
     [id |-> "r12", source |-> Id("knowledge-management"), target |-> Id("graphrag"), type |-> "LEVERAGES"],
     [id |-> "r13", source |-> Id("recommendation"), target |-> Id("neo4j"), type |-> "POWERED_BY"],
     [id |-> "r14", source |-> Id("fraud-detection"), target |-> Id("neo4j"), type |-> "RELIES_ON"],
     [id |-> "r15", source |-> Id("nasa"), target |-> Id("neo4j"), type |-> "USES"],
     [id |-> "r16", source |-> Id("icij"), target |-> Id("neo4j"), type |-> "USES"],
     [id |-> "r17", source |-> Id("nasa"), target |-> Id("knowledge-management"), type |-> "APPLIED_FOR"],
     [id |-> "r18", source |-> Id("icij"), target |-> Id("fraud-detection"), type |-> "APPLIED_FOR"],
     [id |-> "r19", source |-> Id("accuracy"), target |-> Id("genai"), type |-> "CHALLENGE_FOR"],
     [id |-> "r20", source |-> Id("explainability"), target |-> Id("genai"), type |-> "CHALLENGE_FOR"],
     [id |-> "r21", source |-> Id("neo4j"), target |-> Id("vectordb"), type |-> "COMPLEMENTS"],
     [id |-> "r22", source |-> Id("context"), target |-> Id("accuracy"), type |-> "LEADS_TO"] >>]

\* sampleQueries[0].natural: "How does GraphRAG improve AI accuracy?"
natural1 ==
  <<"H","o","w"," ","d","o","e","s"," ","G","r","a","p","h","R","A","G"," ","i","m","p","r","o","v",
    "e"," ","A","I"," ","a","c","c","u","r","a","c","y","?">>

\* sampleQueries[1].natural: "What companies use Neo4j and for what purpose?"
natural2 ==
  <<"W","h","a","t"," ","c","o","m","p","a","n","i","e","s"," ","u","s","e"," ","N","e","o","4","j",
    " ","a","n","d"," ","f","o","r"," ","w","h","a","t"," ","p","u","r","p","o","s","e","?">>

\* sampleQueries[2].natural: "How is GraphRAG different from regular RAG?"
natural3 ==
  <<"H","o","w"," ","i","s"," ","G","r","a","p","h","R","A","G"," ","d","i","f","f","e","r","e","n",
    "t"," ","f","r","o","m"," ","r","e","g","u","l","a","r"," ","R","A","G","?">>

\* sampleQueries[3].natural: "What are the main challenges facing GenAI?"
natural4 ==
  <<"W","h","a","t"," ","a","r","e"," ","t","h","e"," ","m","a","i","n"," ","c","h","a","l","l","e",
    "n","g","e","s"," ","f","a","c","i","n","g"," ","G","e","n","A","I","?">>

sampleQueries ==
  <<[natural |-> natural1,
     cypher |-> "MATCH path = (graphrag:Technology {label: 'GraphRAG'})-[*1..3]-(accuracy:Concept {label: 'Response Accuracy'})\nRETURN path",
     explanation |-> "Multi-hop pattern matching to find all paths between GraphRAG and Accuracy"],
    [natural |-> natural2,
     cypher |-> "MATCH (company:Company)-[:USES]->(neo4j:Technology {label: 'Neo4j'})\nMATCH (company)-[:APPLIED_FOR]->(useCase)\nRETURN company.label as Company, useCase.label as UseCase, company.achievement as Achievement",
     explanation |-> "Relationship traversal to connect companies with their use cases"],
    [natural |-> natural3,
     cypher |-> "MATCH (graphrag:Technology {label: 'GraphRAG'})-[:ENHANCES]->(rag:Technology)\nMATCH (graphrag)-[:USES]->(tech)\nMATCH (rag)-[:OFTEN_USES]->(altTech)\nRETURN graphrag, rag, tech, altTech",
     explanation |-> "Pattern comparison showing architectural differences"],
    [natural |-> natural4,
     cypher |-> "MATCH (challenge)-[r:CHALLENGE_FOR]->(genai:Concept {label: 'Generative AI'})\nRETURN challenge.label as Challenge, challenge.description as Description, r.severity as Severity\nORDER BY r.severity DESC",
     explanation |-> "Relationship properties used for filtering and sorting"] >>

\* responses key 1: 'How does GraphRAG improve AI accuracy?'
responseKey1 ==
  <<"H","o","w"," ","d","o","e","s"," ","G","r","a","p","h","R","A","G"," ","i","m","p","r","o","v",
    "e"," ","A","I"," ","a","c","c","u","r","a","c","y","?">>

\* responses value 1: `GraphRAG significantly improves AI accuracy by leveraging gr ...`
responseText1 ==
  <<"G","r","a","p","h","R","A","G"," ","s","i","g","n","i","f","i","c","a","n","t","l","y"," ","i",
    "m","p","r","o","v","e","s"," ","A","I"," ","a","c","c","u","r","a","c","y"," ","b","y"," ","l",
    "e","v","e","r","a","g","i","n","g"," ","g","r","a","p","h"," ","d","a","t","a","b","a","s","e",
    "s"," ","t","o"," ","p","r","o","v","i","d","e"," ","r","e","l","a","t","i","o","n","s","h","i",
    "p","-","a","w","a","r","e"," ","c","o","n","t","e","x","t"," ","t","o"," ","l","a","n","g","u",
    "a","g","e"," ","m","o","d","e","l","s","."," ","U","n","l","i","k","e"," ","t","r","a","d","i",
    "t","i","o","n","a","l"," ","R","A","G"," ","s","y","s","t","e","m","s"," ","t","h","a","t"," ",
    "r","e","t","r","i","e","v","e"," ","i","s","o","l","a","t","e","d"," ","d","o","c","u","m","e",
    "n","t","s",","," ","G","r","a","p","h","R","A","G"," ","u","n","d","e","r","s","t","a","n","d",
    "s"," ","h","o","w"," ","e","n","t","i","t","i","e","s"," ","a","r","e"," ","c","o","n","n","e",
    "c","t","e","d","."," ","T","h","i","s"," ","e","n","a","b","l","e","s"," ","t","h","e"," ","A",
    "I"," ","t","o",":","\n","\n","1","."," ","F","o","l","l","o","w"," ","m","u","l","t","i","-",
    "h","o","p"," ","r","e","l","a","t","i","o","n","s","h","i","p","s"," ","t","o"," ","f","i","n",
    "d"," ","r","e","l","e","v","a","n","t"," ","c","o","n","t","e","x","t","\n","2","."," ","U","n",
    "d","e","r","s","t","a","n","d"," ","s","e","m","a","n","t","i","c"," ","c","o","n","n","e","c",
    "t","i","o","n","s"," ","b","e","t","w","e","e","n"," ","c","o","n","c","e","p","t","s","\n","3",
    "."," ","P","r","o","v","i","d","e"," ","c","i","t","a","t","i","o","n","s"," ","t","h","a","t",
    " ","s","h","o","w"," ","t","h","e"," ","r","e","a","s","o","n","i","n","g"," ","p","a","t","h",
    "\n","4","."," ","R","e","d","u","c","e"," ","h","a","l","l","u","c","i","n","a","t","i","o","n",
    "s"," ","b","y"," ","g","r","o","u","n","d","i","n","g"," ","r","e","s","p","o","n","s","e","s",
    " ","i","n"," ","s","t","r","u","c","t","u","r","e","d"," ","k","n","o","w","l","e","d","g","e",
    "\n","\n","T","h","e"," ","g","r","a","p","h"," ","s","t","r","u","c","t","u","r","e"," ","n",
    "a","t","u","r","a","l","l","y"," ","e","n","c","o","d","e","s"," ","t","h","e"," ","r","e","l",
    "a","t","i","o","n","s","h","i","p","s"," ","t","h","a","t"," ","m","a","k","e"," ","r","e","s",
    "p","o","n","s","e","s"," ","m","o","r","e"," ","a","c","c","u","r","a","t","e"," ","a","n","d",
    " ","e","x","p","l","a","i","n","a","b","l","e",".">>

\* responses key 2: 'What companies use Neo4j and for what purpose?'
responseKey2 ==
  <<"W","h","a","t"," ","c","o","m","p","a","n","i","e","s"," ","u","s","e"," ","N","e","o","4","j",
    " ","a","n","d"," ","f","o","r"," ","w","h","a","t"," ","p","u","r","p","o","s","e","?">>

\* responses value 2: `Several leading organizations use Neo4j for mission-critical ...`
responseText2 ==
  <<"S","e","v","e","r","a","l"," ","l","e","a","d","i","n","g"," ","o","r","g","a","n","i","z","a",
    "t","i","o","n","s"," ","u","s","e"," ","N","e","o","4","j"," ","f","o","r"," ","m","i","s","s",
    "i","o","n","-","c","r","i","t","i","c","a","l"," ","a","p","p","l","i","c","a","t","i","o","n",
    "s",":","\n","\n","N","A","S","A"," ","u","s","e","s"," ","N","e","o","4","j"," ","f","o","r",
    " ","m","i","s","s","i","o","n"," ","p","l","a","n","n","i","n","g"," ","a","n","d"," ","r","e",
    "s","o","u","r","c","e"," ","o","p","t","i","m","i","z","a","t","i","o","n",","," ","w","h","i",
    "c","h"," ","h","e","l","p","e","d"," ","t","h","e","m"," ","r","e","a","c","h"," ","M","a","r",
    "s"," ","2"," ","y","e","a","r","s"," ","e","a","r","l","i","e","r"," ","t","h","a","n"," ","o",
    "r","i","g","i","n","a","l","l","y"," ","p","l","a","n","n","e","d","."," ","T","h","e"," ","g",
    "r","a","p","h"," ","d","a","t","a","b","a","s","e","'","s"," ","a","b","i","l","i","t","y"," ",
    "t","o"," ","m","o","d","e","l"," ","c","o","m","p","l","e","x"," ","r","e","l","a","t","i","o",
    "n","s","h","i","p","s"," ","b","e","t","w","e","e","n"," ","r","e","s","o","u","r","c","e","s",
    ","," ","s","c","h","e","d","u","l","e","s",","," ","a","n","d"," ","c","o","n","s","t","r","a",
    "i","n","t","s"," ","w","a","s"," ","e","s","s","e","n","t","i","a","l",".","\n","\n","T","h",
    "e"," ","I","n","t","e","r","n","a","t","i","o","n","a","l"," ","C","o","n","s","o","r","t","i",
    "u","m"," ","o","f"," ","I","n","v","e","s","t","i","g","a","t","i","v","e"," ","J","o","u","r",
    "n","a","l","i","s","t","s"," ","(","I","C","I","J",")"," ","u","s","e","d"," ","N","e","o","4",
    "j"," ","t","o"," ","b","r","e","a","k"," ","t","h","e"," ","P","a","n","a","m","a"," ","P","a",
    "p","e","r","s"," ","s","t","o","r","y",","," ","u","n","c","o","v","e","r","i","n","g"," ","h",
    "i","d","d","e","n"," ","f","i","n","a","n","c","i","a","l"," ","n","e","t","w","o","r","k","s",
    " ","b","y"," ","t","r","a","v","e","r","s","i","n","g"," ","r","e","l","a","t","i","o","n","s",
    "h","i","p","s"," ","b","e","t","w","e","e","n"," ","s","h","e","l","l"," ","c","o","m","p","a",
    "n","i","e","s",","," ","i","n","d","i","v","i","d","u","a","l","s",","," ","a","n","d"," ","t",
    "r","a","n","s","a","c","t","i","o","n","s",".","\n","\n","T","h","e","s","e"," ","u","s","e",
    " ","c","a","s","e","s"," ","d","e","m","o","n","s","t","r","a","t","e"," ","h","o","w"," ","g",
    "r","a","p","h"," ","d","a","t","a","b","a","s","e","s"," ","e","x","c","e","l"," ","a","t"," ",
    "r","e","v","e","a","l","i","n","g"," ","p","a","t","t","e","r","n","s"," ","i","n"," ","h","i",
    "g","h","l","y"," ","c","o","n","n","e","c","t","e","d"," ","d","a","t","a",".">>

\* responses key 3: 'How is GraphRAG different from regular RAG?'
responseKey3 ==
  <<"H","o","w"," ","i","s"," ","G","r","a","p","h","R","A","G"," ","d","i","f","f","e","r","e","n",
    "t"," ","f","r","o","m"," ","r","e","g","u","l","a","r"," ","R","A","G","?">>

\* responses value 3: `GraphRAG enhances traditional RAG by replacing or augmenting ...`
responseText3 ==
  <<"G","r","a","p","h","R","A","G"," ","e","n","h","a","n","c","e","s"," ","t","r","a","d","i","t",
    "i","o","n","a","l"," ","R","A","G"," ","b","y"," ","r","e","p","l","a","c","i","n","g"," ","o",
    "r"," ","a","u","g","m","e","n","t","i","n","g"," ","v","e","c","t","o","r"," ","d","a","t","a",
    "b","a","s","e","s"," ","w","i","t","h"," ","g","r","a","p","h"," ","d","a","t","a","b","a","s",
    "e","s",":","\n","\n","T","r","a","d","i","t","i","o","n","a","l"," ","R","A","G"," ","t","y",
    "p","i","c","a","l","l","y"," ","u","s","e","s"," ","v","e","c","t","o","r"," ","d","a","t","a",
    "b","a","s","e","s"," ","f","o","r"," ","s","i","m","i","l","a","r","i","t","y","-","b","a","s",
    "e","d"," ","r","e","t","r","i","e","v","a","l",","," ","w","h","i","c","h"," ","f","i","n","d",
    "s"," ","s","e","m","a","n","t","i","c","a","l","l","y"," ","s","i","m","i","l","a","r"," ","d",
    "o","c","u","m","e","n","t","s"," ","b","u","t"," ","d","o","e","s","n","'","t"," ","c","a","p",
    "t","u","r","e"," ","r","e","l","a","t","i","o","n","s","h","i","p","s"," ","b","e","t","w","e",
    "e","n"," ","e","n","t","i","t","i","e","s",".","\n","\n","G","r","a","p","h","R","A","G"," ",
    "u","s","e","s"," ","N","e","o","4","j","'","s"," ","g","r","a","p","h"," ","s","t","r","u","c",
    "t","u","r","e"," ","t","o",":","\n","-"," ","Q","u","e","r","y"," ","w","i","t","h"," ","C","y",
    "p","h","e","r"," ","f","o","r"," ","p","r","e","c","i","s","e"," ","p","a","t","t","e","r","n",
    " ","m","a","t","c","h","i","n","g","\n","-"," ","T","r","a","v","e","r","s","e"," ","r","e","l",
    "a","t","i","o","n","s","h","i","p","s"," ","t","o"," ","f","i","n","d"," ","m","u","l","t","i",
    "-","h","o","p"," ","c","o","n","t","e","x","t","\n","-"," ","U","n","d","e","r","s","t","a","n",
    "d"," ","h","o","w"," ","e","n","t","i","t","i","e","s"," ","a","r","e"," ","c","o","n","n","e",
    "c","t","e","d","\n","-"," ","P","r","o","v","i","d","e"," ","t","r","a","n","s","p","a","r","e",
    "n","t"," ","r","e","a","s","o","n","i","n","g"," ","p","a","t","h","s","\n","\n","W","h","i",
    "l","e"," ","v","e","c","t","o","r"," ","d","a","t","a","b","a","s","e","s"," ","a","r","e"," ",
    "g","r","e","a","t"," ","f","o","r"," ","s","i","m","i","l","a","r","i","t","y"," ","s","e","a",
    "r","c","h",","," ","t","h","e","y"," ","m","i","s","s"," ","t","h","e"," ","s","e","m","a","n",
    "t","i","c"," ","r","e","l","a","t","i","o","n","s","h","i","p","s"," ","t","h","a","t"," ","g",
    "r","a","p","h","s"," ","n","a","t","u","r","a","l","l","y"," ","e","n","c","o","d","e","."," ",
    "T","h","e"," ","i","d","e","a","l"," ","a","r","c","h","i","t","e","c","t","u","r","e"," ","o",
    "f","t","e","n"," ","c","o","m","b","i","n","e","s"," ","b","o","t","h",":"," ","v","e","c","t",
    "o","r","s"," ","f","o","r"," ","s","i","m","i","l","a","r","i","t","y",","," ","g","r","a","p",
    "h","s"," ","f","o","r"," ","r","e","l","a","t","i","o","n","s","h","i","p","s",".">>

\* responses key 4: 'What are the main challenges facing GenAI?'
responseKey4 ==
  <<"W","h","a","t"," ","a","r","e"," ","t","h","e"," ","m","a","i","n"," ","c","h","a","l","l","e",
    "n","g","e","s"," ","f","a","c","i","n","g"," ","G","e","n","A","I","?">>

\* responses value 4: `Generative AI faces several critical challenges that graph d ...`
responseText4 ==
  <<"G","e","n","e","r","a","t","i","v","e"," ","A","I"," ","f","a","c","e","s"," ","s","e","v","e",
    "r","a","l"," ","c","r","i","t","i","c","a","l"," ","c","h","a","l","l","e","n","g","e","s"," ",
    "t","h","a","t"," ","g","r","a","p","h"," ","d","a","t","a","b","a","s","e","s"," ","h","e","l",
    "p"," ","a","d","d","r","e","s","s",":","\n","\n","1","."," ","*","*","R","e","s","p","o","n",
    "s","e"," ","A","c","c","u","r","a","c","y","*","*",":"," ","L","L","M","s"," ","t","e","n","d",
    " ","t","o"," ","h","a","l","l","u","c","i","n","a","t","e"," ","o","r"," ","g","e","n","e","r",
    "a","t","e"," ","p","l","a","u","s","i","b","l","e","-","s","o","u","n","d","i","n","g"," ","b",
    "u","t"," ","i","n","c","o","r","r","e","c","t"," ","i","n","f","o","r","m","a","t","i","o","n",
    "."," ","G","r","a","p","h","R","A","G"," ","g","r","o","u","n","d","s"," ","r","e","s","p","o",
    "n","s","e","s"," ","i","n"," ","f","a","c","t","u","a","l",","," ","s","t","r","u","c","t","u",
    "r","e","d"," ","k","n","o","w","l","e","d","g","e"," ","f","r","o","m"," ","t","h","e"," ","g",
    "r","a","p","h",".","\n","\n","2","."," ","*","*","A","I"," ","E","x","p","l","a","i","n","a",
    "b","i","l","i","t","y","*","*",":"," ","U","n","d","e","r","s","t","a","n","d","i","n","g"," ",
    "h","o","w"," ","a","n"," ","A","I"," ","a","r","r","i","v","e","d"," ","a","t"," ","a"," ","c",
    "o","n","c","l","u","s","i","o","n"," ","i","s"," ","c","r","u","c","i","a","l"," ","f","o","r",
    " ","t","r","u","s","t"," ","a","n","d"," ","c","o","m","p","l","i","a","n","c","e","."," ","G",
    "r","a","p","h","s"," ","p","r","o","v","i","d","e"," ","t","r","a","n","s","p","a","r","e","n",
    "t"," ","r","e","a","s","o","n","i","n","g"," ","p","a","t","h","s"," ","b","y"," ","s","h","o",
    "w","i","n","g"," ","t","h","e"," ","r","e","l","a","t","i","o","n","s","h","i","p","s"," ","t",
    "r","a","v","e","r","s","e","d"," ","t","o"," ","g","e","n","e","r","a","t","e"," ","a"," ","r",
    "e","s","p","o","n","s","e",".","\n","\n","3","."," ","*","*","C","o","n","t","e","x","t","u",
    "a","l"," ","U","n","d","e","r","s","t","a","n","d","i","n","g","*","*",":"," ","C","o","m","p",
    "r","e","h","e","n","d","i","n","g"," ","c","o","m","p","l","e","x"," ","r","e","l","a","t","i",
    "o","n","s","h","i","p","s"," ","b","e","t","w","e","e","n"," ","e","n","t","i","t","i","e","s",
    " ","i","s"," ","d","i","f","f","i","c","u","l","t"," ","f","o","r"," ","t","r","a","d","i","t",
    "i","o","n","a","l"," ","a","p","p","r","o","a","c","h","e","s","."," ","G","r","a","p","h","s",
    " ","n","a","t","u","r","a","l","l","y"," ","e","n","c","o","d","e"," ","c","o","n","t","e","x",
    "t"," ","t","h","r","o","u","g","h"," ","t","h","e","i","r"," ","r","e","l","a","t","i","o","n",
    "s","h","i","p"," ","s","t","r","u","c","t","u","r","e",".","\n","\n","T","h","e","s","e"," ",
    "c","h","a","l","l","e","n","g","e","s"," ","a","r","e"," ","e","s","p","e","c","i","a","l","l",
    "y"," ","s","e","v","e","r","e"," ","i","n"," ","r","e","g","u","l","a","t","e","d"," ","i","n",
    "d","u","s","t","r","i","e","s"," ","w","h","e","r","e"," ","a","c","c","u","r","a","c","y"," ",
    "a","n","d"," ","e","x","p","l","a","i","n","a","b","i","l","i","t","y"," ","a","r","e"," ","m",
    "a","n","d","a","t","o","r","y",".">>

responses ==
  <<<<responseKey1, responseText1>>,
    <<responseKey2, responseText2>>,
    <<responseKey3, responseText3>>,
    <<responseKey4, responseText4>>>>

\* 'I searched the knowledge graph but couldn't find specific information about "'
notFoundPrefix ==
  <<"I"," ","s","e","a","r","c","h","e","d"," ","t","h","e"," ","k","n","o","w","l","e","d","g","e",
    " ","g","r","a","p","h"," ","b","u","t"," ","c","o","u","l","d","n","'","t"," ","f","i","n","d",
    " ","s","p","e","c","i","f","i","c"," ","i","n","f","o","r","m","a","t","i","o","n"," ","a","b",
    "o","u","t"," ","\"">>

\* '". The graph contains information about GenAI, graph databases, and their real-world applications. Try asking about GraphRAG, Neo4j use cases, or how graphs improve AI accuracy.'
notFoundSuffix ==
  <<"\"","."," ","T","h","e"," ","g","r","a","p","h"," ","c","o","n","t","a","i","n","s"," ","i","n",
    "f","o","r","m","a","t","i","o","n"," ","a","b","o","u","t"," ","G","e","n","A","I",","," ","g",
    "r","a","p","h"," ","d","a","t","a","b","a","s","e","s",","," ","a","n","d"," ","t","h","e","i",
    "r"," ","r","e","a","l","-","w","o","r","l","d"," ","a","p","p","l","i","c","a","t","i","o","n",
    "s","."," ","T","r","y"," ","a","s","k","i","n","g"," ","a","b","o","u","t"," ","G","r","a","p",
    "h","R","A","G",","," ","N","e","o","4","j"," ","u","s","e"," ","c","a","s","e","s",","," ","o",
    "r"," ","h","o","w"," ","g","r","a","p","h","s"," ","i","m","p","r","o","v","e"," ","A","I"," ",
    "a","c","c","u","r","a","c","y",".">>

\* 'Based on the knowledge graph, I found relevant information in '
foundPrefix ==
  <<"B","a","s","e","d"," ","o","n"," ","t","h","e"," ","k","n","o","w","l","e","d","g","e"," ","g",
    "r","a","p","h",","," ","I"," ","f","o","u","n","d"," ","r","e","l","e","v","a","n","t"," ","i",
    "n","f","o","r","m","a","t","i","o","n"," ","i","n"," ">>

\* '. '
foundSeparator ==
  <<"."," ">>

\* 'These concepts are interconnected in the graph, showing how they relate to your question.'
foundFallback ==
  <<"T","h","e","s","e"," ","c","o","n","c","e","p","t","s"," ","a","r","e"," ","i","n","t","e","r",
    "c","o","n","n","e","c","t","e","d"," ","i","n"," ","t","h","e"," ","g","r","a","p","h",","," ",
    "s","h","o","w","i","n","g"," ","h","o","w"," ","t","h","e","y"," ","r","e","l","a","t","e"," ",
    "t","o"," ","y","o","u","r"," ","q","u","e","s","t","i","o","n",".">>

\* ' The graph structure helps me understand these relationships and provide more accurate, explainable responses.'
foundSuffix ==
  <<" ","T","h","e"," ","g","r","a","p","h"," ","s","t","r","u","c","t","u","r","e"," ","h","e","l",
    "p","s"," ","m","e"," ","u","n","d","e","r","s","t","a","n","d"," ","t","h","e","s","e"," ","r",
    "e","l","a","t","i","o","n","s","h","i","p","s"," ","a","n","d"," ","p","r","o","v","i","d","e",
    " ","m","o","r","e"," ","a","c","c","u","r","a","t","e",","," ","e","x","p","l","a","i","n","a",
    "b","l","e"," ","r","e","s","p","o","n","s","e","s",".">>

(***************************************************************************)
(* Retrieval: simulateGraphRetrieval.                                      *)
(***************************************************************************)

RetrievalLimit ==
  3

KeywordMinLength ==
  3

\* const keywords = query.toLowerCase().split(' ')
keywords(query) ==
  split(toLowerCase(query))

\* `${node.label} ${JSON.stringify(node.properties)}`.toLowerCase()
nodeText(node) ==
  toLowerCase(node.label \o <<" ">> \o JSONstringify(node.properties))

\* Mutant: the length test is keyword.length >= 3.
nodeMatches_minLength3(node, kws) ==
  LET text == nodeText(node)
  IN  \E k \in 1..Len(kws) : Len(kws[k]) >= KeywordMinLength /\ includes(text, kws[k])

\* Mutant: the length test is dropped.
nodeMatches_noLengthTest(node, kws) ==
  LET text == nodeText(node)
  IN  \E k \in 1..Len(kws) : includes(text, kws[k])

\* keywords.some(keyword => keyword.length > 3 && nodeText.includes(keyword))
nodeMatches(node, kws) ==
  LET text == nodeText(node)
  IN  \E k \in 1..Len(kws) : Len(kws[k]) > KeywordMinLength /\ includes(text, kws[k])

\* Mutant: a node that has a pin (fx) is left out of the result.
simulateGraphRetrieval_skipsPinned(q, gd) ==
  LET kws == keywords(q)
      pinned(node) == "fx" \in DOMAIN node /\ node.fx # << >>
  IN  slice(SelectSeq(gd.nodes, LAMBDA node : ~pinned(node) /\ nodeMatches(node, kws)),
            0, RetrievalLimit)

\* Mutant: the result is not cut to three nodes.
simulateGraphRetrieval_noSlice(q, gd) ==
  LET kws == keywords(q)
  IN  SelectSeq(gd.nodes, LAMBDA node : nodeMatches(node, kws))

\* Mutant: the first three nodes are taken before the filter, not after.
simulateGraphRetrieval_sliceFirst(q, gd) ==
  LET kws == keywords(q)
  IN  SelectSeq(slice(gd.nodes, 0, RetrievalLimit), LAMBDA node : nodeMatches(node, kws))

\* graphData.nodes.filter(...).slice(0, 3), computed after the 500 ms wait.
simulateGraphRetrieval(q, gd) ==
  LET kws == keywords(q)
  IN  slice(SelectSeq(gd.nodes, LAMBDA node : nodeMatches(node, kws)), 0, RetrievalLimit)

(***************************************************************************)
(* The answer: sampleQueries.find, generateResponse, streamText.           *)
(***************************************************************************)

\* q.natural.toLowerCase().split(' ').slice(0, 3).join(' ').toLowerCase()
firstThreeWords(natural) ==
  toLowerCase(join(slice(split(toLowerCase(natural)), 0, 3), <<" ">>))

\* The search that returns the last matching entry.
findMatchingQuery_lastMatch(content) ==
  LET hits == { k \in 1..Len(sampleQueries) :
                  includes(toLowerCase(content), firstThreeWords(sampleQueries[k].natural)) }
  IN  IF hits = {} THEN 0 ELSE CHOOSE k \in hits : \A h \in hits : k >= h

\* sampleQueries.find(q => content.toLowerCase().includes(...)): the position
\* of the first such entry, 0 when there is none (undefined).
findMatchingQuery(content) ==
  LET hits == { k \in 1..Len(sampleQueries) :
                  includes(toLowerCase(content), firstThreeWords(sampleQueries[k].natural)) }
  IN  IF hits = {} THEN 0 ELSE CHOOSE k \in hits : \A h \in hits : k <= h

\* properties.description, << >> when the key is absent (undefined is falsy,
\* as is the empty string).
description(node) ==
  LET ds == SelectSeq(node.properties,
                      LAMBDA p : p.key = <<"d","e","s","c","r","i","p","t","i","o","n">>)
  IN  IF Len(ds) = 0 THEN << >> ELSE ds[Len(ds)].value

\* generateResponse(query, sources, matchingQuery), matchingQuery a position
\* in sampleQueries or 0.
generateResponse(q, sources, matchingQuery) ==
  LET hits == IF matchingQuery = 0 THEN {}
              ELSE { k \in 1..Len(responses) :
                       includes(sampleQueries[matchingQuery].natural, responses[k][1]) }
  IN  IF hits # {}
      THEN responses[CHOOSE k \in hits : \A h \in hits : k <= h][2]
      ELSE IF Len(sources) = 0
      THEN notFoundPrefix \o q \o notFoundSuffix
      ELSE foundPrefix
           \o join([i \in 1..Len(sources) |-> sources[i].label], <<",", " ">>)
           \o foundSeparator
           \o (IF description(sources[1]) # << >> THEN description(sources[1])
               ELSE foundFallback)
           \o foundSuffix

\* streamText(text, delayMs): the chunks in the order they are yielded, each
\* word followed by a space except the last.
streamText(text) ==
  LET words  == split(text)
      yields == [i \in 1..Len(words) |->
                   words[i] \o (IF i < Len(words) THEN <<" ">> ELSE << >>)]
  IN  SubSeq(yields, 1, Len(yields))

\* streamedContent after the first n chunks.
RECURSIVE concat(_, _)
concat(chunks, n) ==
  IF n = 0 THEN << >>
  ELSE IF n = 1 THEN chunks[1]
  ELSE LET h == n \div 2
       IN  concat(chunks, h) \o concat(SubSeq(chunks, h + 1, n), n - h)

(***************************************************************************)
(* Inputs of the retrieval check: small generated stores and queries, and  *)
(* the shipped graph with queries a user can type or execute.              *)
(***************************************************************************)

MaxNodes ==
  4

MaxTokens ==
  2

\* Tokens a generated query is made of: empty (from leading, trailing or
\* repeated spaces), three characters, four characters in either case.
TokenPool ==
  { << >>, <<"b","a","b">>, <<"A","b","a","b">>, <<"b","a","b","a">>, <<"a","a","a","a">> }

GeneratedQueries ==
  { << >> } \cup
  { join(ts, <<" ">>) : ts \in UNION { [1..n -> TokenPool] : n \in 1..MaxTokens } }

\* The label and properties of a generated node: a label that holds a
\* four-character token in upper case, a short label, and a short label
\* with a property value that holds another four-character token.
NodePool ==
  { << <<"A","b","a","b">>, << >> >>,
    << <<"b","a">>, << >> >>,
    << <<"b","a">>, << [key |-> <<"k">>, value |-> <<"b","a","b","a">>] >> >> }

\* Node ids are unique by construction: the id names the position.
GeneratedIds ==
  <<"n1", "n2", "n3", "n4", "n5", "n6">>

GeneratedStores ==
  { [nodes |-> [i \in DOMAIN c |-> [id |-> GeneratedIds[i], type |-> "Concept",
                                    label |-> c[i][1], properties |-> c[i][2]]],
     relationships |-> << >>] :
    c \in UNION { [1..n -> NodePool] : n \in 0..MaxNodes } }

\* "how does graphrag improve accuracy"
queryAccuracy ==
  <<"h","o","w"," ","d","o","e","s"," ","g","r","a","p","h","r","a","g"," ","i","m","p","r","o","v",
    "e"," ","a","c","c","u","r","a","c","y">>

\* "graphrag accuracy"
queryGraphragAccuracy ==
  <<"g","r","a","p","h","r","a","g"," ","a","c","c","u","r","a","c","y">>

SampleStoreQueries ==
  { queryAccuracy, queryGraphragAccuracy, natural1, natural2, natural3, natural4 }

RetrievalInputs ==
  (GeneratedQueries \X GeneratedStores) \cup (SampleStoreQueries \X {sampleGraphData})

(***************************************************************************)
(* State.                                                                  *)
(***************************************************************************)

VARIABLES
  \* App (useState) and the rendered graph
  mounted,            \* the first render has been committed and its effects run
  messages,           \* Message[]: [id, role, content, sources, cypherQuery, isStreaming]
  selectedNode,       \* GraphNode | null: << >> for null, <<id>> for the node with that id
  highlightedNodes,   \* string[]: node ids
  isLoading,
  relationships,      \* graphData.relationships, whose objects d3.forceLink changes in place
  drawn,              \* ids of the relationships whose line has the highlight stroke '#008CC1'
  \* the event loop
  calls,              \* the invocations of handleSendMessage, in the order of submission
  timers,             \* the pending setTimeout(() => setHighlightedNodes([]), 3000), oldest first
  now,                \* Date.now()
  nodes,              \* the fields d3 keeps on the node objects of graphData.nodes, by
                      \* node id: x (the position) and fx (the pin), each null or <<v>>
  simulation,         \* the d3.forceSimulation of the layout effect that ran last
  gestures,           \* the drag gestures in progress, by pointer
  error,              \* null, or the error thrown out of the layout effect
  input,              \* ChatInterface: the text in the input field
  lastEvent,          \* history: the click handled last, if no other event came after it:
                      \* its type and node, whether it came while its node (for a click
                      \* elsewhere: any node) was selected, and whether it repeats the
                      \* click that selected the node
  \* one call of simulateGraphRetrieval on its own (RetrievalSpec)
  query, store, result, resolved,
  \* the answer handleSendMessage gives to the query (AnswerSpec)
  answer,
  \* history: for each query retrieved so far, the ids returned by the last
  \* call and whether it has been called again (RepeatSpec)
  returned

layoutVars ==
  <<nodes, simulation, gestures>>

appVars ==
  <<mounted, messages, selectedNode, highlightedNodes, isLoading, relationships, drawn,
    calls, timers, now, lastEvent, layoutVars, error, input>>

retrievalVars ==
  <<query, store, result, resolved, answer, returned>>

vars ==
  <<appVars, retrievalVars>>

MaxCalls ==
  2

MaxClock ==
  1

\* The chunks of one answer that are emitted in steps of their own; the
\* chunks after these arrive in one step.
MaxChunkSteps ==
  2

undefined ==
  "undefined"

null ==
  << >>

\* The nodes the user clicks in the graph.
ClickableNodes ==
  {"graphrag", "accuracy"}

\* The texts the user types into the chat form (trimmed, not empty).
ChatInputs ==
  {queryGraphragAccuracy}

\* The entries of the query list whose Execute button the user presses.
ExecutedQueries ==
  {1}

\* The texts sent through the chat form when the answers are followed to
\* their end: a query that retrieves nodes, one of punctuation only and one
\* whose words occur nowhere in the graph.
PipelineInputs ==
  { queryGraphragAccuracy, <<"?">>, <<"z","z","z","z"," ","?","!">> }

SubmittableQueries ==
  ChatInputs \cup PipelineInputs \cup {sampleQueries[k].natural : k \in ExecutedQueries}

\* The nodes the user drags; their d3 fields are the ones followed.
DraggableNodes ==
  ClickableNodes

\* const [graphData] = useState(sampleGraphData): the node list is never
\* replaced; the node objects carry the fields d3 adds to them, and the
\* relationship objects are the ones d3 changes.
graphData ==
  [nodes |-> [i \in 1..Len(store.nodes) |->
                IF store.nodes[i].id \in DOMAIN nodes
                THEN [id |-> store.nodes[i].id, type |-> store.nodes[i].type,
                      label |-> store.nodes[i].label,
                      properties |-> store.nodes[i].properties,
                      x |-> nodes[store.nodes[i].id].x, fx |-> nodes[store.nodes[i].id].fx]
                ELSE store.nodes[i]],
   relationships |-> relationships]

\* The mapping that keeps the id of the first node only.
Ids_firstOnly(ns) ==
  [i \in 1..(IF Len(ns) = 0 THEN 0 ELSE 1) |-> ns[i].id]

\* nodes.map(n => n.id)
Ids(ns) ==
  [i \in 1..Len(ns) |-> ns[i].id]

NodeById(id) ==
  LET j == CHOOSE j \in 1..Len(sampleGraphData.nodes) : sampleGraphData.nodes[j].id = id
  IN  sampleGraphData.nodes[j]

\* The function that maps each text of qs to f of it, built entry by entry.
RECURSIVE tabulateOver(_, _)
tabulateOver(f(_), qs) ==
  IF qs = {} THEN << >>
  ELSE LET q == CHOOSE q \in qs : TRUE
       IN  (q :> f(q)) @@ tabulateOver(f, qs \ {q})

tabulate(f(_)) ==
  tabulateOver(f, SubmittableQueries)

\* What a call of handleSendMessage computes from its content (the node
\* list is constant): the nodes retrieved,
relevantNodesOf(content) ==
  simulateGraphRetrieval(content, sampleGraphData)

relevantNodesFor ==
  tabulate(relevantNodesOf)

\* the example matched,
matchingQueryFor ==
  tabulate(findMatchingQuery)

\* the narrative,
responseTextOf(content) ==
  generateResponse(content, relevantNodesFor[content], matchingQueryFor[content])

responseTextFor ==
  tabulate(responseTextOf)

\* and the chunks the narrative is emitted in.
chunksOf(content) ==
  streamText(responseTextFor[content])

chunksFor ==
  tabulate(chunksOf)

\* and streamedContent after each number of chunks.
streamedContentOf(content) ==
  [n \in 0..Len(chunksFor[content]) |-> concat(chunksFor[content], n)]

streamedContentFor ==
  tabulate(streamedContentOf)

\* lastEvent when the event handled last was not a click of the user on the
\* graph or the details panel.
NoEvent ==
  [type |-> "none", node |-> null, deselects |-> FALSE, again |-> FALSE]

(***************************************************************************)
(* GraphVisualization: the layout effect.                                  *)
(***************************************************************************)

\* The grid the positions are taken from is 0..MaxX.
MaxX ==
  1

\* Fixed-point arithmetic for alpha: AlphaScale, the square of AlphaRoot,
\* stands for 1.
AlphaRoot ==
  1000

AlphaScale ==
  AlphaRoot * AlphaRoot

\* d3.forceSimulation defaults: alphaMin = 0.001 and
\* alphaDecay = 1 - alphaMin ^ (1 / 300) = 0.022763.
alphaMin ==
  1000

\* A decay of a tenth of the default.
alphaDecay_tenth ==
  22763 \div 10

alphaDecay ==
  22763

\* d * alphaDecay in fixed point, rounded down, with every intermediate
\* value within 32 bits.
decayed(d) ==
  ((d \div AlphaRoot) * alphaDecay + ((d % AlphaRoot) * alphaDecay) \div AlphaRoot) \div AlphaRoot

\* simulation.alphaTarget(0.3) in dragstarted.
dragAlphaTarget ==
  300000

\* The ticks of one simulation during which a pointer holds a node.
MaxDragTicks ==
  1

\* A drag gesture starts, and a node is clicked, before tick MaxInputTick + 1
\* of a simulation.
MaxInputTick ==
  0

\* The pointers (touch identifiers, the mouse) that can hold a node.
Pointers ==
  {"p1", "p2"}

NoGesture ==
  [node |-> "none", stale |-> FALSE]

\* No simulation has been created yet.
NoSimulation ==
  [alpha |-> AlphaScale, alphaTarget |-> 0, running |-> FALSE,
   ticks |-> 0, dragTicks |-> 0, dragged |-> FALSE]

\* d3.forceSimulation(nodes): alpha = 1, alphaTarget = 0, and the timer is
\* started.  ticks, dragTicks and dragged are history: the ticks since the
\* creation, those of them with a pointer holding a node, and whether a
\* drag gesture started on this simulation.
forceSimulation ==
  [alpha |-> AlphaScale, alphaTarget |-> 0, running |-> TRUE,
   ticks |-> 0, dragTicks |-> 0, dragged |-> FALSE]

\* The position a node without one gets from its index (d3 places the
\* nodes on a spiral, by index).
initialPosition(id) ==
  LET i == CHOOSE i \in 1..Len(store.nodes) : store.nodes[i].id = id
  IN  <<(i - 1) % (MaxX + 1)>>

\* initializeNodes of d3.forceSimulation: a pinned node is put on its pin,
\* a node without a position gets one.
initializeNodes(ns) ==
  [id \in DOMAIN ns |->
     [ns[id] EXCEPT !.x = IF ns[id].fx # null THEN ns[id].fx
                          ELSE IF @ = null THEN initialPosition(id) ELSE @]]

\* The position in rels of the first relationship with a source or target
\* id that names no node (find() of d3.forceLink throws there), 0 if none.
firstMissing(rels) ==
  LET exists(e) == e.isNode \/ \E i \in 1..Len(store.nodes) : store.nodes[i].id = e.id
      bad == { i \in 1..Len(rels) : ~exists(rels[i].source) \/ ~exists(rels[i].target) }
  IN  IF bad = {} THEN 0 ELSE CHOOSE i \in bad : \A j \in bad : i <= j

\* d3.forceLink(data.relationships).id(d => d.id), initialized when the
\* force is added to the simulation: a source or target that is not an
\* object is replaced by the node object with that id, relationship by
\* relationship, source before target, up to the first id that names no
\* node.
forceLinkInitialize(rels) ==
  LET missing == firstMissing(rels)
      sourceFound(i) == rels[i].source.isNode
                          \/ \E k \in 1..Len(store.nodes) : store.nodes[k].id = rels[i].source.id
  IN  [i \in 1..Len(rels) |->
         IF missing = 0 \/ i < missing
         THEN [rels[i] EXCEPT !.source = IF @.isNode THEN @ ELSE NodeRef(@.id),
                              !.target = IF @.isNode THEN @ ELSE NodeRef(@.id)]
         ELSE IF i = missing /\ sourceFound(i)
         THEN [rels[i] EXCEPT !.source = IF @.isNode THEN @ ELSE NodeRef(@.id)]
         ELSE rels[i]]

\* highlightedNodes.includes(d.source as string): Array.prototype.includes
\* compares with ===, and no string is === to a node object.
arrayIncludes(hl, endpoint) ==
  ~endpoint.isNode /\ \E i \in 1..Len(hl) : hl[i] = endpoint.id

\* The stroke test of a relationship line.
linkHighlighted(d, hl) ==
  arrayIncludes(hl, d.source) /\ arrayIncludes(hl, d.target)

\* One run of the effect: the simulation is created over data.relationships
\* and then the lines are drawn.
layoutEffect(rels, hl) ==
  LET links == forceLinkInitialize(rels)
  IN  [relationships |-> links,
       drawn |-> { links[i].id : i \in { k \in 1..Len(links) : linkHighlighted(links[k], hl) } }]

\* The gestures in progress belong to the drag behaviour of an earlier run
\* of the effect: their handlers hold the simulation of that run.
Stale(gs) ==
  [p \in DOMAIN gs |-> IF gs[p].node = "none" THEN gs[p] ELSE [gs[p] EXCEPT !.stale = TRUE]]

\* The effect reruns after a render in which selectedNode or
\* highlightedNodes changed: the simulation of the run before is stopped
\* and, unless there is no node, a new one is created and everything is
\* drawn again.
Rerender(hl) ==
  IF Len(store.nodes) = 0
  THEN /\ simulation' = [simulation EXCEPT !.running = FALSE]
       /\ UNCHANGED <<relationships, drawn, nodes, gestures>>
  ELSE LET e == layoutEffect(relationships, hl)
       IN  /\ relationships' = e.relationships
           /\ drawn' = e.drawn
           /\ nodes' = initializeNodes(nodes)
           /\ simulation' = forceSimulation
           /\ gestures' = Stale(gestures)

\* The first run of the effect.  When d3.forceLink meets an id that names
\* no node, its error leaves the effect after the simulation was created
\* and before anything is drawn: React unmounts the application, and the
\* simulation, which no cleanup stops, goes on.
Mount ==
  /\ ~mounted
  /\ error = null
  /\ IF Len(store.nodes) # 0 /\ firstMissing(relationships) # 0
     THEN LET r == relationships[firstMissing(relationships)]
              exists(e) == \E i \in 1..Len(store.nodes) : store.nodes[i].id = e.id
          IN  /\ error' = <<"node not found", IF exists(r.source) THEN r.target.id
                                              ELSE r.source.id>>
              /\ mounted' = FALSE
              /\ relationships' = forceLinkInitialize(relationships)
              /\ nodes' = initializeNodes(nodes)
              /\ simulation' = forceSimulation
              /\ UNCHANGED <<drawn, gestures>>
     ELSE /\ mounted' = TRUE
          /\ Rerender(highlightedNodes)
          /\ error' = error
  /\ lastEvent' = NoEvent
  /\ UNCHANGED <<messages, selectedNode, highlightedNodes, isLoading, calls, timers, now>>
  /\ UNCHANGED <<retrievalVars, input>>

(***************************************************************************)
(* GraphVisualization: the simulation timer and the drag handlers.         *)
(***************************************************************************)

\* The end of a tick that moves every node, pinned or not.
tickPosition_ignoresPin(n, x) ==
  <<x>>

\* The end of simulation.tick() for one node, x being where the forces and
\* the velocity take it: if (node.fx == null) node.x += node.vx *= velocityDecay
\* else node.x = node.fx, node.vx = 0.
tickPosition(n, x) ==
  IF n.fx = null THEN <<x>> ELSE n.fx

\* The gestures of the drag behaviour bound by the effect run that a
\* gesture with this stale flag belongs to, other than pointer p's.
activeGestures(p, stale) ==
  { o \in Pointers \ {p} : gestures[o].node # "none" /\ gestures[o].stale = stale }

\* A pointer holds a node.
Held ==
  \E p \in Pointers : gestures[p].node # "none"

\* One step of the simulation timer: alpha moves towards alphaTarget, the
\* forces act, the positions are updated, the tick handler redraws, and
\* the timer stops when alpha has fallen below alphaMin.
SimulationTick ==
  /\ simulation.running
  /\ Held => simulation.dragTicks < MaxDragTicks
  /\ LET alpha == simulation.alpha + decayed(simulation.alphaTarget - simulation.alpha)
     IN  simulation' = [simulation EXCEPT !.alpha = alpha,
                                          !.running = ~(alpha < alphaMin),
                                          !.ticks = @ + 1,
                                          !.dragTicks = IF Held THEN @ + 1 ELSE @]
  /\ \E forced \in [DOMAIN nodes -> 0..MaxX] :
       nodes' = [id \in DOMAIN nodes |->
                   [nodes[id] EXCEPT !.x = tickPosition(nodes[id], forced[id])]]
  /\ UNCHANGED <<mounted, messages, selectedNode, highlightedNodes, isLoading, relationships,
                 drawn, calls, timers, now, lastEvent, gestures, error>>
  /\ UNCHANGED <<retrievalVars, input>>

\* dragstarted: pointer p goes down on the circle of node d.
DragStart(p, d) ==
  /\ mounted
  /\ d \in DOMAIN nodes
  /\ simulation.ticks <= MaxInputTick
  /\ gestures[p].node = "none"
  /\ gestures' = [gestures EXCEPT ![p] = [node |-> d, stale |-> FALSE]]
  /\ simulation' = IF activeGestures(p, FALSE) = {}
                   THEN [simulation EXCEPT !.alphaTarget = dragAlphaTarget,
                                           !.running = TRUE, !.dragged = TRUE]
                   ELSE simulation
  /\ nodes' = [nodes EXCEPT ![d].fx = nodes[d].x]
  /\ UNCHANGED <<mounted, messages, selectedNode, highlightedNodes, isLoading, relationships,
                 drawn, calls, timers, now, lastEvent, error>>
  /\ UNCHANGED <<retrievalVars, input>>

\* dragged: pointer p moves to x.
Dragged(p, x) ==
  /\ gestures[p].node # "none"
  /\ nodes' = [nodes EXCEPT ![gestures[p].node].fx = <<x>>]
  /\ UNCHANGED <<mounted, messages, selectedNode, highlightedNodes, isLoading, relationships,
                 drawn, calls, timers, now, lastEvent, simulation, gestures, error>>
  /\ UNCHANGED <<retrievalVars, input>>

\* dragended: pointer p goes up.  simulation is the one of the effect run
\* that bound the handler: for a gesture that began before the last run it
\* is a simulation that has been stopped and replaced.
DragEnd(p) ==
  /\ gestures[p].node # "none"
  /\ simulation' = IF activeGestures(p, gestures[p].stale) = {} /\ ~gestures[p].stale
                   THEN [simulation EXCEPT !.alphaTarget = 0]
                   ELSE simulation
  /\ nodes' = [nodes EXCEPT ![gestures[p].node].fx = null]
  /\ gestures' = [gestures EXCEPT ![p] = NoGesture]
  /\ UNCHANGED <<mounted, messages, selectedNode, highlightedNodes, isLoading, relationships,
                 drawn, calls, timers, now, lastEvent, error>>
  /\ UNCHANGED <<retrievalVars, input>>

(***************************************************************************)
(* Selection.                                                              *)
(***************************************************************************)

\* A later selection or retrieval has written the highlight set since these
\* timeouts were armed (history, kept with each pending timeout).
Superseded(ts) ==
  [i \in 1..Len(ts) |-> [ts[i] EXCEPT !.superseded = TRUE]]

\* handleNodeSelect(node)
handleNodeSelect(node) ==
  /\ selectedNode' = node
  /\ highlightedNodes' = IF node # null THEN <<node[1]>> ELSE << >>
  /\ timers' = Superseded(timers)
  /\ Rerender(highlightedNodes')
  /\ UNCHANGED <<mounted, messages, isLoading, calls, now, error>>
  /\ UNCHANGED <<retrievalVars, input>>

\* The click handler without the toggle: the clicked node is always passed.
nodeClickArgument_noToggle(sel, d) ==
  <<d>>

\* The argument of onNodeSelect in the click handler of a node circle.
nodeClickArgument(sel, d) ==
  IF sel = <<d>> THEN null ELSE <<d>>

\* Click on the circle of node d (the event does not reach the svg).
NodeClick(d) ==
  /\ mounted
  /\ \E i \in 1..Len(store.nodes) : store.nodes[i].id = d
  /\ handleNodeSelect(nodeClickArgument(selectedNode, d))
  /\ lastEvent' = [type |-> "nodeClick", node |-> <<d>>,
                   deselects |-> selectedNode = <<d>>,
                   again |-> /\ lastEvent.type = "nodeClick"
                             /\ lastEvent.node = <<d>>
                             /\ ~lastEvent.deselects]

\* svg.on('click', () => onNodeSelect(null)), registered by a run of the
\* effect that did not return at its first line.
BackgroundClick ==
  /\ mounted
  /\ Len(store.nodes) # 0
  /\ handleNodeSelect(null)
  /\ lastEvent' = [type |-> "backgroundClick", node |-> null,
                   deselects |-> selectedNode # null, again |-> FALSE]

\* NodeDetailsPanel onClose={() => setSelectedNode(null)}; the panel is
\* rendered while a node is selected.
ClosePanel ==
  /\ selectedNode # null
  /\ selectedNode' = null
  /\ Rerender(highlightedNodes)
  /\ lastEvent' = [type |-> "closePanel", node |-> null,
                   deselects |-> selectedNode # null, again |-> FALSE]
  /\ UNCHANGED <<mounted, messages, highlightedNodes, isLoading, calls, timers, now, error>>
  /\ UNCHANGED <<retrievalVars, input>>

\* handleSourceClick(node), from a source button of assistant message m.
SourceClick(m, k) ==
  /\ m \in 1..Len(messages)
  /\ messages[m].role = "assistant"
  /\ k \in 1..Len(messages[m].sources)
  /\ selectedNode' = <<messages[m].sources[k]>>
  /\ highlightedNodes' = <<messages[m].sources[k]>>
  /\ timers' = Superseded(timers)
  /\ Rerender(highlightedNodes')
  /\ lastEvent' = NoEvent
  /\ UNCHANGED <<mounted, messages, isLoading, calls, now, error>>
  /\ UNCHANGED <<retrievalVars, input>>

(***************************************************************************)
(* NodeDetailsPanel.                                                       *)
(***************************************************************************)

\* rel.source === node.id (or rel.target): true of an id string equal to
\* the node's id, false of a node object.
strictEqualsId(endpoint, id) ==
  ~endpoint.isNode /\ endpoint.id = id

\* graphData.relationships.filter(rel => rel.source === node.id
\*                                        || rel.target === node.id)
connections(rels, id) ==
  SelectSeq(rels, LAMBDA rel : strictEqualsId(rel.source, id) \/ strictEqualsId(rel.target, id))

\* connections.map(rel => ({ node, relationship, direction }))
\*            .filter(c => c.node): graphData.nodes.find(n => n.id === connectedId)
\* finds a node only for an id string that names one.
connectedNodes(gd, id) ==
  LET cs     == connections(gd.relationships, id)
      other(rel) == IF strictEqualsId(rel.source, id) THEN rel.target ELSE rel.source
      found(e) == ~e.isNode /\ \E k \in 1..Len(gd.nodes) : gd.nodes[k].id = e.id
      listed == SelectSeq(cs, LAMBDA rel : found(other(rel)))
  IN  [i \in 1..Len(listed) |->
         [node |-> other(listed[i]).id,
          relationship |-> listed[i].id,
          direction |-> IF strictEqualsId(listed[i].source, id) THEN "outgoing"
                        ELSE "incoming"]]

(***************************************************************************)
(* handleSendMessage.                                                      *)
(***************************************************************************)

\* prev.map(msg => msg.id === assistantMessage.id
\*                  ? { ...msg, content: streamedContent } : msg)
setContent(msgs, id, streamedContent) ==
  [m \in 1..Len(msgs) |->
     IF msgs[m].id = id THEN [msgs[m] EXCEPT !.content = streamedContent] ELSE msgs[m]]

\* A completion that leaves the streaming flag set.
setComplete_keepsStreaming(msgs, id) ==
  [m \in 1..Len(msgs) |->
     IF msgs[m].id = id THEN [msgs[m] EXCEPT !.isStreaming = msgs[m].isStreaming]
     ELSE msgs[m]]

\* setMessages(prev => prev.map(msg => msg.id === assistantMessage.id
\*   ? { ...msg, isStreaming: false } : msg))
setComplete(msgs, id) ==
  [m \in 1..Len(msgs) |->
     IF msgs[m].id = id THEN [msgs[m] EXCEPT !.isStreaming = FALSE] ELSE msgs[m]]

\* A call that is emitting its answer when another query is submitted
\* (history, kept with the call).
Interrupted(cs) ==
  [i \in 1..Len(cs) |->
     IF cs[i].pc = "streaming" THEN [cs[i] EXCEPT !.interrupted = TRUE] ELSE cs[i]]

\* handleSendMessage(content) up to its first await: the user message is
\* appended, isLoading is set and the 800 ms wait starts.
handleSendMessage(content) ==
  /\ Len(calls) < MaxCalls
  /\ messages' = Append(messages,
                        [id |-> [time |-> now, assistant |-> FALSE], role |-> "user",
                         content |-> content, sources |-> << >>,
                         cypherQuery |-> undefined, isStreaming |-> FALSE])
  /\ isLoading' = TRUE
  /\ calls' = Append(Interrupted(calls),
                     [content |-> content, pc |-> "await800", matchingQuery |-> 0,
                      relevantNodes |-> << >>, assistantId |-> undefined,
                      messageIndex |-> 0, streamed |-> 0, interrupted |-> FALSE])
  /\ UNCHANGED <<mounted, selectedNode, highlightedNodes, relationships, drawn, timers, now,
                 layoutVars, error>>
  /\ UNCHANGED retrievalVars

\* The characters String.prototype.trim removes (those that occur in the
\* texts typed).
Whitespace ==
  {" ", "\n", "\t"}

\* s.trim()
trim(s) ==
  LET kept == { i \in 1..Len(s) : s[i] \notin Whitespace }
  IN  IF kept = {} THEN << >>
      ELSE SubSeq(s, CHOOSE i \in kept : \A j \in kept : i <= j,
                     CHOOSE i \in kept : \A j \in kept : i >= j)

\* The test of a form that sends while a query is loading.
canSubmit_ignoresLoading(text, loading) ==
  trim(text) # << >>

\* input.trim() && !isLoading (the empty string is falsy)
canSubmit(text, loading) ==
  trim(text) # << >> /\ ~loading

\* onChange={(e) => setInput(e.target.value)}; the field is disabled while
\* isLoading.
TypeInput(text) ==
  /\ mounted
  /\ ~isLoading
  /\ input # text
  /\ input' = text
  /\ lastEvent' = NoEvent
  /\ UNCHANGED <<mounted, messages, selectedNode, highlightedNodes, isLoading,
                 relationships, drawn, calls, timers, now, layoutVars, error>>
  /\ UNCHANGED retrievalVars

\* ChatInterface handleSubmit, from the form or from Enter in the field:
\* if (input.trim() && !isLoading) { onSendMessage(input.trim()); setInput('') }
ChatSubmit ==
  /\ mounted
  /\ canSubmit(input, isLoading)
  /\ handleSendMessage(trim(input))
  /\ input' = << >>
  /\ lastEvent' = NoEvent

\* QueryBuilder: onClick={() => onQueryExecute(query.natural)}
ExecuteQuery(k) ==
  /\ mounted
  /\ handleSendMessage(sampleQueries[k].natural)
  /\ lastEvent' = NoEvent
  /\ UNCHANGED input

\* The 800 ms wait of call i is over: matchingQuery is found and
\* simulateGraphRetrieval starts its 500 ms wait.  Equal waits end in the
\* order they began.
LatencyElapsed(i) ==
  /\ calls[i].pc = "await800"
  /\ \A j \in 1..(i - 1) : calls[j].pc # "await800"
  /\ calls' = [calls EXCEPT ![i].pc = "await500",
                            ![i].matchingQuery = matchingQueryFor[calls[i].content]]
  /\ lastEvent' = NoEvent
  /\ UNCHANGED <<mounted, messages, selectedNode, highlightedNodes, isLoading,
                 relationships, drawn, timers, now, layoutVars, error>>
  /\ UNCHANGED <<retrievalVars, input>>

\* The 500 ms wait of call i is over: the retrieval resolves, the highlight
\* set is written, the answer is generated, the assistant message is
\* appended and isLoading is cleared (one timer callback and the microtasks
\* it queues).
RetrievalResolved(i) ==
  LET relevantNodes == Ids(relevantNodesFor[calls[i].content])
      mq            == calls[i].matchingQuery
      assistantId   == [time |-> now, assistant |-> TRUE]
  IN  /\ calls[i].pc = "await500"
      /\ \A j \in 1..(i - 1) : calls[j].pc \notin {"await800", "await500"}
      /\ highlightedNodes' = relevantNodes
      /\ messages' = Append(messages,
                            [id |-> assistantId, role |-> "assistant", content |-> << >>,
                             sources |-> relevantNodes,
                             cypherQuery |-> IF mq = 0 THEN undefined
                                             ELSE sampleQueries[mq].cypher,
                             isStreaming |-> TRUE])
      /\ isLoading' = FALSE
      /\ calls' = [calls EXCEPT ![i].pc = "streaming", ![i].relevantNodes = relevantNodes,
                                ![i].assistantId = assistantId,
                                ![i].messageIndex = Len(messages) + 1]
      /\ timers' = Superseded(timers)
      /\ Rerender(highlightedNodes')
      /\ lastEvent' = NoEvent
      /\ UNCHANGED <<mounted, selectedNode, now, error>>
      /\ UNCHANGED <<retrievalVars, input>>

\* A 30 ms wait of streamText is over for call i: the next chunk is added to
\* streamedContent and written to the message with the call's assistant id.
\* After the last chunk the message is marked complete and the 3000 ms
\* timeout is armed, in the same callback.
StreamChunk(i) ==
  LET chunks   == chunksFor[calls[i].content]
      next     == calls[i].streamed + 1
      upto     == IF next >= MaxChunkSteps THEN Len(chunks) ELSE next
      finished == upto = Len(chunks)
      id       == calls[i].assistantId
      streamedContent == streamedContentFor[calls[i].content][upto]
      written  == setContent(messages, id, streamedContent)
  IN  /\ calls[i].pc = "streaming"
      /\ messages' = IF finished THEN setComplete(written, id) ELSE written
      /\ calls' = [calls EXCEPT ![i].streamed = upto,
                                ![i].pc = IF finished THEN "done" ELSE "streaming"]
      /\ timers' = IF finished THEN Append(timers, [call |-> i, superseded |-> FALSE])
                   ELSE timers
      /\ lastEvent' = NoEvent
      /\ UNCHANGED <<mounted, selectedNode, highlightedNodes, isLoading, relationships,
                     drawn, now, layoutVars, error>>
      /\ UNCHANGED <<retrievalVars, input>>

\* A timeout callback that leaves the highlight set as it is.
HighlightExpires_keepsHighlight ==
  /\ Len(timers) > 0
  /\ timers' = Tail(timers)
  /\ lastEvent' = NoEvent
  /\ UNCHANGED <<mounted, messages, selectedNode, highlightedNodes, isLoading, calls, now,
                 relationships, drawn, layoutVars, error>>
  /\ UNCHANGED <<retrievalVars, input>>

\* The oldest pending timeout fires: setHighlightedNodes([]).
HighlightExpires ==
  /\ Len(timers) > 0
  /\ highlightedNodes' = << >>
  /\ timers' = Tail(timers)
  /\ Rerender(highlightedNodes')
  /\ lastEvent' = NoEvent
  /\ UNCHANGED <<mounted, messages, selectedNode, isLoading, calls, now, error>>
  /\ UNCHANGED <<retrievalVars, input>>

\* A millisecond passes.
Tick ==
  /\ now < MaxClock
  /\ now' = now + 1
  /\ UNCHANGED <<mounted, messages, selectedNode, highlightedNodes, isLoading,
                 relationships, drawn, calls, timers, lastEvent, layoutVars, error>>
  /\ UNCHANGED <<retrievalVars, input>>

(***************************************************************************)
(* The application.                                                        *)
(***************************************************************************)

AppInit ==
  /\ mounted = FALSE
  /\ messages = << >>
  /\ selectedNode = null
  /\ highlightedNodes = << >>
  /\ isLoading = FALSE
  /\ relationships = store.relationships
  /\ drawn = {}
  /\ nodes = [id \in DraggableNodes \cap { store.nodes[i].id : i \in 1..Len(store.nodes) } |->
                [x |-> null, fx |-> null]]
  /\ simulation = NoSimulation
  /\ gestures = [p \in Pointers |-> NoGesture]
  /\ error = null
  /\ calls = << >>
  /\ timers = << >>
  /\ now = 0
  /\ lastEvent = NoEvent
  /\ input = << >>

\* No answer has been computed.
NoAnswer ==
  [matchingQuery |-> 0, responseText |-> << >>, cypherQuery |-> undefined]

Init ==
  /\ query = << >>
  /\ store = sampleGraphData
  /\ result = << >>
  /\ resolved = TRUE
  /\ answer = NoAnswer
  /\ returned = << >>
  /\ AppInit

Next ==
  \/ Mount
  \/ \E d \in ClickableNodes : NodeClick(d)
  \/ BackgroundClick
  \/ ClosePanel
  \/ \E m \in 1..Len(messages) : \E k \in 1..RetrievalLimit : SourceClick(m, k)
  \/ \E text \in ChatInputs : TypeInput(text)
  \/ ChatSubmit
  \/ \E k \in ExecutedQueries : ExecuteQuery(k)
  \/ \E i \in 1..Len(calls) : LatencyElapsed(i)
  \/ \E i \in 1..Len(calls) : RetrievalResolved(i)
  \/ \E i \in 1..Len(calls) : StreamChunk(i)
  \/ HighlightExpires
  \/ Tick

Spec ==
  Init /\ [][Next]_vars

\* The application without the query builder and with the clock stopped.
\* The waits of handleSendMessage and its timeout are browser timers: a
\* timer that is due fires.
ExpiryNext ==
  \/ Mount
  \/ \E d \in ClickableNodes : NodeClick(d)
  \/ BackgroundClick
  \/ ClosePanel
  \/ \E m \in 1..Len(messages) : \E k \in 1..RetrievalLimit : SourceClick(m, k)
  \/ \E text \in ChatInputs : TypeInput(text)
  \/ ChatSubmit
  \/ \E i \in 1..Len(calls) : LatencyElapsed(i)
  \/ \E i \in 1..Len(calls) : RetrievalResolved(i)
  \/ \E i \in 1..Len(calls) : StreamChunk(i)
  \/ HighlightExpires

FairSpec ==
  /\ Init
  /\ [][ExpiryNext]_vars
  /\ WF_vars(\E i \in 1..Len(calls) : LatencyElapsed(i))
  /\ WF_vars(\E i \in 1..Len(calls) : RetrievalResolved(i))
  /\ WF_vars(\E i \in 1..Len(calls) : StreamChunk(i))
  /\ WF_vars(HighlightExpires)

(***************************************************************************)
(* The graph view on its own: the simulation, the drags and the node       *)
(* clicks that make the layout effect run again.                           *)
(***************************************************************************)

LayoutNext ==
  \/ Mount
  \/ \E d \in ClickableNodes :
       (simulation.ticks <= MaxInputTick \/ ~simulation.running) /\ NodeClick(d)
  \/ SimulationTick
  \/ \E p \in Pointers : \E d \in DraggableNodes : DragStart(p, d)
  \/ \E p \in Pointers : \E x \in 0..MaxX : Dragged(p, x)
  \/ \E p \in Pointers : DragEnd(p)

LayoutSpec ==
  Init /\ [][LayoutNext]_vars

(***************************************************************************)
(* The chat form next to the query builder.                                *)
(***************************************************************************)

\* The texts typed into the field: blank ones, and a query with white
\* space around it.
FormInputs ==
  { <<" ">>, <<" ", "\n">>, <<" ">> \o queryGraphragAccuracy \o <<" ", "\n">> }

FormNext ==
  \/ Mount
  \/ \E text \in FormInputs : TypeInput(text)
  \/ ChatSubmit
  \/ \E k \in ExecutedQueries : ExecuteQuery(k)
  \/ \E i \in 1..Len(calls) : LatencyElapsed(i)
  \/ \E i \in 1..Len(calls) : RetrievalResolved(i)
  \/ \E i \in 1..Len(calls) : StreamChunk(i)

FormSpec ==
  Init /\ [][FormNext]_vars

(***************************************************************************)
(* The response pipeline followed to its end.  Its waits are browser       *)
(* timers and promise continuations: one that is due runs.                 *)
(***************************************************************************)

PipelineNext ==
  \/ Mount
  \/ \E text \in PipelineInputs : TypeInput(text)
  \/ ChatSubmit
  \/ \E k \in ExecutedQueries : ExecuteQuery(k)
  \/ \E i \in 1..Len(calls) : LatencyElapsed(i)
  \/ \E i \in 1..Len(calls) : RetrievalResolved(i)
  \/ \E i \in 1..Len(calls) : StreamChunk(i)
  \/ Tick

PipelineSpec ==
  /\ Init
  /\ [][PipelineNext]_vars
  /\ WF_vars(\E i \in 1..Len(calls) : LatencyElapsed(i))
  /\ WF_vars(\E i \in 1..Len(calls) : RetrievalResolved(i))
  /\ WF_vars(\E i \in 1..Len(calls) : StreamChunk(i))

(***************************************************************************)
(* Retrievals repeated while the graph view is in use.                     *)
(***************************************************************************)

\* The ticks of one simulation in RepeatSpec.
MaxRetrievalTicks ==
  1

\* The pointer that drags in RepeatSpec.
RepeatPointers ==
  {"p1"}

\* "GraphRAG"
queryGraphrag ==
  <<"G","r","a","p","h","R","A","G">>

\* The queries retrieved again and again.
RepeatQueries ==
  { queryGraphrag, queryGraphragAccuracy }

\* The part of the shipped graph that RepeatSpec runs on: three of its
\* nodes and the relationships between them.
repeatGraphData ==
  LET ns  == <<node_genai, node_graphrag, node_accuracy>>
      ids == { ns[i].id : i \in 1..Len(ns) }
  IN  [nodes |-> ns,
       relationships |-> SelectSeq(sampleGraphData.relationships,
                                   LAMBDA r : r.source.id \in ids /\ r.target.id \in ids)]

\* repeatGraphData with a relationship that names a node the graph does
\* not have, as its last or its first relationship, and a graph that has
\* relationships and no node.
danglingTarget ==
  [repeatGraphData EXCEPT
     !.relationships = Append(@, [@[1] EXCEPT !.id = "dangling", !.target = Id("missing")])]

danglingSource ==
  [repeatGraphData EXCEPT
     !.relationships = <<[@[1] EXCEPT !.id = "dangling", !.source = Id("missing")]>> \o @]

noNodes ==
  [repeatGraphData EXCEPT !.nodes = << >>]

RepeatStores ==
  { repeatGraphData, danglingTarget, danglingSource, noNodes }

RepeatInit ==
  /\ query = << >>
  /\ store \in RepeatStores
  /\ result = << >>
  /\ resolved = TRUE
  /\ answer = NoAnswer
  /\ returned = << >>
  /\ AppInit

\* A call simulateGraphRetrieval(q, graphData) resolves.  The array it
\* returns holds the node objects themselves: result names them, and their
\* d3 fields stay those of nodes.
Retrieve(q) ==
  /\ mounted
  /\ query' = q
  /\ LET found == simulateGraphRetrieval(q, graphData)
     IN  result' = [i \in 1..Len(found) |-> NodeById(found[i].id)]
  /\ resolved' = TRUE
  /\ returned' = (q :> [ids |-> Ids(result'), again |-> q \in DOMAIN returned]) @@ returned
  /\ UNCHANGED <<store, answer>>
  /\ UNCHANGED appVars

RepeatNext ==
  \/ Mount
  \/ \E d \in ClickableNodes : NodeClick(d)
  \/ simulation.ticks < MaxRetrievalTicks /\ SimulationTick
  \/ \E p \in RepeatPointers : \E d \in DraggableNodes : DragStart(p, d)
  \/ \E p \in RepeatPointers : \E x \in 0..MaxX : Dragged(p, x)
  \/ \E p \in RepeatPointers : DragEnd(p)
  \/ \E q \in RepeatQueries : Retrieve(q)

RepeatSpec ==
  RepeatInit /\ [][RepeatNext]_vars

(***************************************************************************)
(* One call of simulateGraphRetrieval on its own.                          *)
(***************************************************************************)

RetrievalInit ==
  /\ \E inp \in RetrievalInputs : query = inp[1] /\ store = inp[2]
  /\ result = << >>
  /\ resolved = FALSE
  /\ answer = NoAnswer
  /\ returned = << >>
  /\ AppInit

\* The 500 ms wait is over: the promise resolves with the filtered nodes.
RetrievalResolve ==
  /\ ~resolved
  /\ result' = simulateGraphRetrieval(query, store)
  /\ resolved' = TRUE
  /\ UNCHANGED <<query, store, answer, returned>>
  /\ UNCHANGED appVars

RetrievalNext ==
  RetrievalResolve

RetrievalSpec ==
  RetrievalInit /\ [][RetrievalNext]_vars

(***************************************************************************)
(* The answer of handleSendMessage to one query, on the shipped graph.     *)
(***************************************************************************)

\* The words of a typed query.
MaxAnswerWords ==
  3

\* Words the typed queries are made of: the first words of the examples.
AnswerWords ==
  { <<"W","h","a","t">>, <<"a","r","e">>, <<"t","h","e">>,
    <<"h","o","w">>, <<"d","o","e","s">>, <<"G","r","a","p","h","R","A","G">> }

\* A query that holds the first three words of the fourth example and,
\* after them, those of the first.
twoPrefixQuery ==
  <<"W","h","a","t"," ","a","r","e"," ","t","h","e"," ","w","a","y","s"," ","h","o","w"," ","d","o","e","s"," ","G","r","a","p","h","R","A","G"," ","w","o","r","k">>

\* A query that matches no example and retrieves NASA, which has no
\* description, before AI Explainability, which has one.
queryNasaExplainability ==
  <<"N","A","S","A"," ","e","x","p","l","a","i","n","a","b","i","l","i","t","y">>

\* A query that matches no example and retrieves only nodes without a
\* description.
queryNasaIcij ==
  <<"n","a","s","a"," ","i","c","i","j">>

AnswerInputs ==
  { join(ws, <<" ">>) : ws \in UNION { [1..n -> AnswerWords] : n \in 1..MaxAnswerWords } }
    \cup { natural1, natural2, natural3, natural4, twoPrefixQuery,
           queryAccuracy, queryNasaExplainability, queryNasaIcij }

AnswerInit ==
  /\ query \in AnswerInputs
  /\ store = sampleGraphData
  /\ result = << >>
  /\ resolved = FALSE
  /\ answer = NoAnswer
  /\ returned = << >>
  /\ AppInit

\* handleSendMessage from sampleQueries.find to the assistant message: the
\* example matched, the nodes retrieved, the narrative and the Cypher text
\* attached to the message.
Answer ==
  /\ ~resolved
  /\ LET matchingQuery == findMatchingQuery(query)
         relevantNodes == simulateGraphRetrieval(query, graphData)
     IN  /\ result' = relevantNodes
         /\ answer' = [matchingQuery |-> matchingQuery,
                       responseText |-> generateResponse(query, relevantNodes, matchingQuery),
                       cypherQuery |-> IF matchingQuery = 0 THEN undefined
                                       ELSE sampleQueries[matchingQuery].cypher]
  /\ resolved' = TRUE
  /\ UNCHANGED <<query, store, returned>>
  /\ UNCHANGED appVars

AnswerNext ==
  Answer

AnswerSpec ==
  AnswerInit /\ [][AnswerNext]_vars

(***************************************************************************)
(* Properties of the retrieval (checked under RetrievalSpec).              *)
(***************************************************************************)

UniqueIds(gd) ==
  \A i, j \in 1..Len(gd.nodes) : gd.nodes[i].id = gd.nodes[j].id => i = j

\* The space-separated tokens of q of length >= 4, lowercased: the maximal
\* space-free runs of at least four characters.
LongTokens(q) ==
  { toLowerCase(SubSeq(q, a, b)) : <<a, b>> \in
      { ab \in (1..Len(q)) \X (1..Len(q)) :
          /\ ab[2] - ab[1] >= 3
          /\ \A k \in ab[1]..ab[2] : q[k] # " "
          /\ (ab[1] = 1 \/ q[ab[1] - 1] = " ")
          /\ (ab[2] = Len(q) \/ q[ab[2] + 1] = " ") } }

\* The node's text blob contains a token of the query of length >= 4.
SharesLongToken(node, q) ==
  \E t \in LongTokens(q) : includes(nodeText(node), t)

\* The store positions of the nodes that share a long token with the query.
MatchingPositions(q, gd) ==
  { j \in 1..Len(gd.nodes) : SharesLongToken(gd.nodes[j], q) }

\* C1: for every query and every store with unique node ids, retrieval
\* returns at most 3 nodes, with pairwise distinct ids, each a node of the
\* store.
C1_RetrievalBoundedDistinctSubset ==
  (resolved /\ UniqueIds(store)) =>
    /\ Len(result) <= 3
    /\ \A i, j \in 1..Len(result) : result[i].id = result[j].id => i = j
    /\ \A i \in 1..Len(result) : \E j \in 1..Len(store.nodes) : result[i] = store.nodes[j]

\* C1 witness: a store in which more than three nodes match, cut to three.
C1_Witness ==
  /\ resolved
  /\ UniqueIds(store)
  /\ Cardinality(MatchingPositions(query, store)) > 3
  /\ Len(result) = 3

\* C7: for the query "how does graphrag improve accuracy" over a store with
\* a node whose label contains "accuracy", the result includes such a node.
C7_AccuracyNodeIncluded ==
  LET accuracy == <<"a","c","c","u","r","a","c","y">>
      labelled(node) == includes(toLowerCase(node.label), accuracy)
  IN  (/\ resolved
       /\ query = queryAccuracy
       /\ \E j \in 1..Len(store.nodes) : labelled(store.nodes[j]))
      => \E i \in 1..Len(result) : labelled(result[i])

\* C8: every returned node has a text blob that contains at least one
\* space-separated, lowercased query token of length >= 4.
C8_ReturnedNodesShareLongToken ==
  resolved => \A i \in 1..Len(result) : SharesLongToken(result[i], query)

\* C8 witness: a node is returned while another node of the store, whose
\* blob contains only a three-character token of the query, is not.
C8_Witness ==
  /\ resolved
  /\ Len(result) >= 1
  /\ \E j \in 1..Len(store.nodes) :
       /\ \A i \in 1..Len(result) : result[i] # store.nodes[j]
       /\ ~SharesLongToken(store.nodes[j], query)
       /\ \E t \in {toLowerCase(w) : w \in TokenPool} :
            Len(t) = 3 /\ includes(toLowerCase(query), t) /\ includes(nodeText(store.nodes[j]), t)

\* C9: the result is exactly the first 3 matching nodes in store order (all
\* of them when fewer than 3 match), in store order.
C9_FirstThreeMatchesInStoreOrder ==
  resolved =>
    LET M     == MatchingPositions(query, store)
        first == { j \in M : Cardinality({ m \in M : m < j }) < 3 }
    IN  /\ Len(result) = Cardinality(first)
        /\ \A j \in first :
             result[Cardinality({ m \in first : m < j }) + 1] = store.nodes[j]

\* C9 witness: the first node of the store does not match and three later
\* ones do: the result skips the first and keeps the order of the others.
C9_Witness ==
  /\ resolved
  /\ Len(store.nodes) >= 4
  /\ 1 \notin MatchingPositions(query, store)
  /\ Ids(result) = <<store.nodes[2].id, store.nodes[3].id, store.nodes[4].id>>

\* Every token of q has length <= 3: every four consecutive characters
\* hold a space.
OnlyShortTokens(q) ==
  \A a \in 1..(Len(q) - 3) : \E k \in a..(a + 3) : q[k] = " "

\* C10: retrieval returns the empty sequence for the empty query, for a
\* query of tokens of length <= 3 only, and for a query none of whose
\* retained tokens occurs in any node blob.
C10_EmptyResultCases ==
  resolved =>
    /\ query = << >> => result = << >>
    /\ OnlyShortTokens(query) => result = << >>
    /\ MatchingPositions(query, store) = {} => result = << >>

\* C10 witness: a non-empty query of short and empty tokens whose
\* three-character token occurs in a node blob, with an empty result.
C10_Witness ==
  /\ resolved
  /\ Len(query) > 3
  /\ OnlyShortTokens(query)
  /\ \E j \in 1..Len(store.nodes) :
       includes(nodeText(store.nodes[j]), <<"b","a","b">>) /\ includes(query, <<"b","a","b">>)
  /\ result = << >>

(***************************************************************************)
(* Properties of the application (checked under Spec).                     *)
(***************************************************************************)

InHighlight(id) ==
  \E i \in 1..Len(highlightedNodes) : highlightedNodes[i] = id

\* C2: in every rendering after the force layout has been created over the
\* relationship objects, a relationship line is drawn highlighted exactly
\* when both of its endpoints are in the highlight node set.
C2_EdgeHighlightDerived ==
  mounted =>
    \A i \in 1..Len(relationships) :
      (relationships[i].id \in drawn)
        <=> (InHighlight(relationships[i].source.id) /\ InHighlight(relationships[i].target.id))

\* C3: a non-empty highlight set, written by a select or a retrieval that
\* came after a timeout was armed, is never cleared by that timeout: the
\* timeout of an earlier retrieval does not fire once it has been superseded.
C3_SupersededTimeoutNeverClears ==
  [][(Len(timers) > 0 /\ timers[1].superseded /\ highlightedNodes # << >>)
       => ~(highlightedNodes' = << >> /\ timers' = Tail(timers))]_vars

\* C4: once another query has been submitted while a call was emitting its
\* narrative, that call emits no further chunk and the content of its
\* message no longer grows.
C4_InterruptedEmissionAbandoned ==
  [][\A i \in 1..Len(calls) :
       calls[i].interrupted
         => /\ calls'[i].streamed = calls[i].streamed
            /\ \A m \in 1..Len(messages) :
                 messages[m].id = calls[i].assistantId
                   => messages'[m].content = messages[m].content]_vars

\* C5: after a deselect event that came while a node was selected (a click
\* on the selected node, a click on the background, the close button of the
\* details panel) the highlight set is empty.
C5_DeselectLeavesHighlightEmpty ==
  lastEvent.deselects => highlightedNodes = << >>

\* C6: after a click on a node that selected it, immediately followed by a
\* click on the same node, no node is selected and the highlight set is
\* empty.
C6_SelectTwiceTogglesOff ==
  lastEvent.again => (selectedNode = null /\ highlightedNodes = << >>)

\* The second of two clicks on the same node has been handled.
C6_Witness ==
  /\ lastEvent.type = "nodeClick"
  /\ lastEvent.again
  /\ lastEvent.deselects

\* C12: in the step in which the retrieval of a call completes, whatever the
\* highlight set was, it becomes the ids of all retrieved nodes, the
\* assistant message of the call is created in that step with an empty
\* content and no chunk of the call has been emitted; until that step the
\* call has no assistant message and has emitted nothing.
C12_HighlightReplacedOnCompletion ==
  [][\A i \in 1..Len(calls) :
       LET retrieved == relevantNodesFor[calls[i].content]
       IN  /\ calls[i].pc \in {"await800", "await500"}
             => /\ calls[i].assistantId = undefined
                /\ calls[i].streamed = 0
                /\ Cardinality({ m \in 1..Len(messages) : messages[m].role = "assistant" })
                     = Cardinality({ j \in 1..Len(calls) :
                                       calls[j].pc \in {"streaming", "done"} })
           /\ (calls[i].pc = "await500" /\ calls'[i].pc # "await500")
             => /\ highlightedNodes' = [k \in 1..Len(retrieved) |-> retrieved[k].id]
                /\ calls'[i].streamed = 0
                /\ Len(messages') = Len(messages) + 1
                /\ messages'[Len(messages')].id = calls'[i].assistantId
                /\ messages'[Len(messages')].content = << >>]_vars

\* A retrieval that returned several nodes has just completed while a node
\* was selected: the highlight set it replaced was written by a selection.
C12_Witness ==
  \E i \in 1..Len(calls) :
    /\ calls[i].pc = "streaming"
    /\ calls[i].streamed = 0
    /\ selectedNode # null
    /\ Len(highlightedNodes) > 1
    /\ highlightedNodes = calls[i].relevantNodes

\* The retrieval of call i has set a non-empty highlight set that is still
\* in place, and no later call exists.
HighlightSetByRetrieval(i) ==
  /\ i = Len(calls)
  /\ calls[i].pc \in {"streaming", "done"}
  /\ highlightedNodes # << >>
  /\ highlightedNodes = calls[i].relevantNodes

\* C13: a non-empty highlight set written by a retrieval does not stay for
\* ever: it becomes empty, unless a later selection or retrieval writes it
\* first.
C13_RetrievalHighlightExpires ==
  \A i \in 1..MaxCalls :
    HighlightSetByRetrieval(i)
      ~> \/ highlightedNodes = << >>
         \/ Len(calls) # i
         \/ highlightedNodes # calls[i].relevantNodes

\* The timeout of a retrieval that highlighted nodes has fired with nothing
\* selected and no timeout left.
C13_Witness ==
  /\ highlightedNodes = << >>
  /\ selectedNode = null
  /\ timers = << >>
  /\ Len(calls) = 1
  /\ calls[1].pc = "done"
  /\ calls[1].relevantNodes # << >>

\* C18: no step changes the node list, the number or the ids of the
\* relationships, or the source or target of a relationship.
C18_StoreNeverChanges ==
  [][/\ store' = store
     /\ Len(relationships') = Len(relationships)
     /\ \A i \in 1..Len(relationships) :
          /\ relationships'[i].id = relationships[i].id
          /\ relationships'[i].source = relationships[i].source
          /\ relationships'[i].target = relationships[i].target]_vars

(***************************************************************************)
(* Properties of the answer (checked under AnswerSpec).                    *)
(***************************************************************************)

\* The lowercased first three words of the stored examples, in table order.
ExamplePrefixes ==
  <<<<"h","o","w"," ","d","o","e","s"," ","g","r","a","p","h","r","a","g">>,
    <<"w","h","a","t"," ","c","o","m","p","a","n","i","e","s"," ","u","s","e">>,
    <<"h","o","w"," ","i","s"," ","g","r","a","p","h","r","a","g">>,
    <<"w","h","a","t"," ","a","r","e"," ","t","h","e">>>>

\* The positions of the examples whose prefix occurs in the lowercased q.
PrefixHits(q) ==
  LET lq == toLowerCase(q)
  IN  { k \in 1..Len(ExamplePrefixes) :
          \E p \in 1..Len(lq) :
            /\ p + Len(ExamplePrefixes[k]) - 1 <= Len(lq)
            /\ SubSeq(lq, p, p + Len(ExamplePrefixes[k]) - 1) = ExamplePrefixes[k] }

\* C19: a retrieval that matched no node comes with the generic narrative
\* that says nothing was found about the query.
C19_NoMatchGetsNotFoundNarrative ==
  (resolved /\ result = << >>)
    => answer.responseText = notFoundPrefix \o query \o notFoundSuffix

\* C20: the answer is a canned narrative with the pattern string of an
\* example exactly when the lowercased query contains the lowercased first
\* three words of some example, and then both are those of the first such
\* example in table order; otherwise no pattern string is attached and the
\* narrative is none of the canned ones.
C20_CannedAnswerOfFirstMatchingExample ==
  resolved =>
    LET hits == PrefixHits(query)
    IN  /\ hits # {}
          => LET first == CHOOSE k \in hits : \A h \in hits : k <= h
             IN  /\ answer.responseText = responses[first][2]
                 /\ answer.cypherQuery = sampleQueries[first].cypher
        /\ hits = {}
          => /\ answer.cypherQuery = undefined
             /\ \A k \in 1..Len(responses) : answer.responseText # responses[k][2]

\* The query answered holds the prefixes of two examples.
C20_Witness ==
  /\ resolved
  /\ Cardinality(PrefixHits(query)) > 1
  /\ answer.cypherQuery # undefined

(***************************************************************************)
(* Properties of the graph view (checked under LayoutSpec).                *)
(***************************************************************************)

\* The nodes that have a pin.
Pinned ==
  { id \in DOMAIN nodes : nodes[id].fx # null }

\* The nodes a pointer holds.
HeldNodes ==
  { gestures[p].node : p \in { o \in Pointers : gestures[o].node # "none" } }

\* C14: at the end of every tick, every node that has a pin is exactly on
\* its pin, wherever the forces would have taken it.
C14_PinnedNodeStaysOnPin ==
  [][simulation'.ticks = simulation.ticks + 1
       => \A id \in DOMAIN nodes : nodes'[id].fx # null => nodes'[id].x = nodes'[id].fx]_vars

\* A tick has completed while a pointer held a node whose pin had been
\* moved away from where the node was grabbed.
C14_Witness ==
  /\ simulation.dragTicks > 0
  /\ \E p \in Pointers :
       /\ gestures[p].node # "none"
       /\ ~gestures[p].stale
       /\ nodes[gestures[p].node].fx # initialPosition(gestures[p].node)
       /\ nodes[gestures[p].node].x = nodes[gestures[p].node].fx

C16_SettlesWithinTickBudget ==
  (simulation.ticks > 0 /\ ~simulation.dragged)
    => /\ simulation.running <=> simulation.alpha >= alphaMin
       /\ simulation.ticks <= 400
       /\ simulation.ticks = 400 => ~simulation.running

\* A simulation that no drag has touched has stopped, below alphaMin.
C16_Witness ==
  /\ simulation.ticks > 0
  /\ ~simulation.dragged
  /\ ~simulation.running
  /\ simulation.alpha < alphaMin
  /\ ~Held

\* C11: a call with a query that was retrieved before returns the ids the
\* earlier call returned, whatever ticks, drags, selections and retrievals
\* of other queries came between.
C11_RepeatedRetrievalReturnsSameIds ==
  [][\A q \in DOMAIN returned : returned'[q].ids = returned[q].ids]_vars

\* A query has been retrieved a second time, after another query, with a
\* node selected, a node pinned by a drag and the layout ticked.
C11_Witness ==
  /\ query \in DOMAIN returned
  /\ returned[query].again
  /\ returned[query].ids # << >>
  /\ DOMAIN returned = RepeatQueries
  /\ selectedNode # null
  /\ simulation.ticks > 0
  /\ \E id \in DOMAIN nodes : nodes[id].fx # null /\ nodes[id].fx # initialPosition(id)

\* Some relationship of gd has a source or target that is the id of no node
\* of gd.
Dangling(gd) ==
  \E i \in 1..Len(gd.relationships) :
    \E e \in {gd.relationships[i].source, gd.relationships[i].target} :
      \A k \in 1..Len(gd.nodes) : gd.nodes[k].id # e.id

\* C17: the application is never mounted on a graph with a dangling
\* relationship: no layout simulation runs on it, none of its relationships
\* is touched, nothing is drawn and no retrieval reads it.
C17_MalformedGraphNeverUsed ==
  Dangling(store)
    => /\ ~mounted
       /\ ~simulation.running
       /\ relationships = store.relationships
       /\ drawn = {}
       /\ returned = << >>

(***************************************************************************)
(* Properties of the details panel and of the message history (checked     *)
(* under Spec).                                                            *)
(***************************************************************************)

\* The positions in the shipped graph of the relationships that have the
\* node id at one end.
Incident(id) ==
  { i \in 1..Len(store.relationships) :
      store.relationships[i].source.id = id \/ store.relationships[i].target.id = id }

\* C27: while a node is selected, the details panel lists one entry for
\* each relationship of the graph that has the node at one end, and no
\* other: the entry names the relationship, the node at the other end and
\* the direction, outgoing exactly when the selected node is the source.
C27_PanelListsIncidentRelationships ==
  selectedNode # null =>
    LET id     == selectedNode[1]
        listed == connectedNodes(graphData, id)
    IN  /\ { listed[k].relationship : k \in 1..Len(listed) }
             = { store.relationships[i].id : i \in Incident(id) }
        /\ Len(listed) = Cardinality(Incident(id))
        /\ \A k \in 1..Len(listed) : \E i \in Incident(id) :
             /\ listed[k].relationship = store.relationships[i].id
             /\ listed[k].direction = "outgoing" <=> store.relationships[i].source.id = id
             /\ listed[k].node = IF store.relationships[i].source.id = id
                                 THEN store.relationships[i].target.id
                                 ELSE store.relationships[i].source.id

\* C29: while a submitted query has not got its assistant message yet,
\* isLoading is true.
C29_LoadingWhileInLatency ==
  (\E i \in 1..Len(calls) : calls[i].pc \in {"await800", "await500"}) => isLoading

\* C30: no step removes or reorders a message or changes the id, role or
\* sources of one, the ids of the messages are pairwise distinct, an
\* assistant message comes after as many user messages as there are
\* assistant messages up to it, and a step of a query's emission changes
\* the content and isStreaming of that query's assistant message only.
C30_HistoryAppendOnlyAndIsolated ==
  [][/\ Len(messages') >= Len(messages)
     /\ \A m \in 1..Len(messages) :
          /\ messages'[m].id = messages[m].id
          /\ messages'[m].role = messages[m].role
          /\ messages'[m].sources = messages[m].sources
     /\ \A m, n \in 1..Len(messages') : messages'[m].id = messages'[n].id => m = n
     /\ \A m \in 1..Len(messages') :
          messages'[m].role = "assistant"
            => Cardinality({ n \in 1..m : messages'[n].role = "user" })
                 >= Cardinality({ n \in 1..m : messages'[n].role = "assistant" })
     /\ Cardinality({ m \in 1..Len(messages) : messages'[m] # messages[m] }) <= 1]_vars

\* s is the beginning of t.
IsPrefix(s, t) ==
  Len(s) <= Len(t) /\ SubSeq(t, 1, Len(s)) = s

\* C22: when the emission for a query that is the text of an example has
\* completed, the assistant message of that query holds the narrative of
\* that example and its Cypher pattern.
C22_ExampleGetsItsOwnAnswer ==
  \A i \in 1..Len(calls) : \A k \in 1..Len(sampleQueries) :
    (calls[i].pc = "done" /\ calls[i].content = sampleQueries[k].natural)
      => /\ messages[calls[i].messageIndex].content = responses[k][2]
         /\ messages[calls[i].messageIndex].cypherQuery = sampleQueries[k].cypher

\* C24: in every step, the content of the assistant message of a query is
\* the beginning of that query's narrative and does not get shorter, and
\* once isStreaming is false it is the whole narrative.
C24_ContentGrowsToNarrative ==
  [][\A i \in 1..Len(calls) :
       calls[i].messageIndex # 0
         => LET before    == messages[calls[i].messageIndex]
                after     == messages'[calls[i].messageIndex]
                narrative == responseTextFor[calls[i].content]
            IN  /\ IsPrefix(after.content, narrative)
                /\ Len(after.content) >= Len(before.content)
                /\ ~after.isStreaming => after.content = narrative]_vars

\* c is text without the white space at its two ends.
TrimOf(text, c) ==
  /\ c # << >>
  /\ c[1] \notin Whitespace
  /\ c[Len(c)] \notin Whitespace
  /\ \E a \in 0..(Len(text) - Len(c)) :
       /\ SubSeq(text, a + 1, a + Len(c)) = c
       /\ \A j \in (1..a) \cup ((a + Len(c) + 1)..Len(text)) : text[j] \in Whitespace

\* C28: a query that is sent is either the text of a pre-built query that
\* was executed, which leaves the input field alone, or comes from the chat
\* form; the chat form sends only while isLoading is false, what it sends is
\* the text of the input field without the white space at its ends and is
\* not empty, and the input field is empty afterwards.
C28_FormSendsTrimmedInputWhenIdle ==
  [][Len(calls') > Len(calls) =>
       LET sent == messages'[Len(messages')]
       IN  /\ sent.role = "user"
           /\ sent.content = calls'[Len(calls')].content
           /\ \/ /\ \E k \in ExecutedQueries : sent.content = sampleQueries[k].natural
                 /\ input' = input
              \/ /\ ~isLoading
                 /\ TrimOf(input, sent.content)
                 /\ input' = << >>]_vars

\* The padded query was typed and sent: its trimmed text is in the history;
\* after the answer a blank text was typed, which stays in the field.
C28_Witness ==
  /\ Len(messages) >= 1
  /\ messages[1].content = queryGraphragAccuracy
  /\ ~isLoading
  /\ input = <<" ", "\n">>

\* C21: no error is raised, and every query that was submitted, whatever
\* its text, eventually has an assistant message of its own whose
\* isStreaming is false.
C21_EveryQueryGetsACompleteAnswer ==
  /\ [](error = << >>)
  /\ \A i \in 1..MaxCalls :
       (Len(calls) >= i) ~>
         (/\ Len(calls) >= i
          /\ calls[i].messageIndex \in 1..Len(messages)
          /\ messages[calls[i].messageIndex].role = "assistant"
          /\ messages[calls[i].messageIndex].id = calls[i].assistantId
          /\ ~messages[calls[i].messageIndex].isStreaming)

\* The punctuation-only query and the query that retrieves nodes were both
\* answered to the end.
C21_Witness ==
  /\ Len(calls) = 2
  /\ {calls[1].content, calls[2].content} = {<<"?">>, queryGraphragAccuracy}
  /\ \A i \in 1..2 : /\ calls[i].pc = "done"
                      /\ ~messages[calls[i].messageIndex].isStreaming

\* C23: when no example matches and nodes were retrieved, the narrative is
\* the generic one: it names the labels of all retrieved nodes in result
\* order, then gives the description of the first retrieved node that has
\* one, and gives the fallback sentence only when none of them has one.
C23_GenericNarrativeUsesFirstAvailableDescription ==
  (resolved /\ answer.matchingQuery = 0 /\ Len(result) > 0) =>
     LET described == { i \in 1..Len(result) : description(result[i]) # << >> }
         first     == CHOOSE i \in described : \A j \in described : i <= j
     IN  answer.responseText =
           foundPrefix
           \o join([i \in 1..Len(result) |-> result[i].label], <<",", " ">>)
           \o foundSeparator
           \o (IF described = {} THEN foundFallback ELSE description(result[first]))
           \o foundSuffix

\* C25: while a pointer holds a node the simulation is ticking and its
\* alpha is driven towards 0.3, so that it does not settle before the
\* pointer is lifted.
C25_SimulationStaysHotWhileDragging ==
  Held => (simulation.running /\ simulation.alphaTarget = dragAlphaTarget)

\* C26: a change of the selection or of the highlight set leaves the
\* simulation as it is: its alpha is not reset and a settled layout stays
\* settled.
C26_HighlightLeavesSimulationUnchanged ==
  [][(highlightedNodes' # highlightedNodes \/ selectedNode' # selectedNode)
       => (/\ simulation'.alpha = simulation.alpha
           /\ simulation'.running = simulation.running)]_vars

=============================================================================
